---- MODULE Spec2Model ----
(***************************************************************************)
(* GameThing: the server packaging pipeline (manifest.py, chunk.py,        *)
(* final.py) and the client install pipeline (downloader.py), for one game *)
(* id.                                                                     *)
(*                                                                         *)
(* Byte strings are modelled by what they are made of: a sequence of runs  *)
(* [c, off, len], the bytes off .. off+len-1 of the byte stream c, kept    *)
(* normalised (two adjacent runs that continue each other are one run).    *)
(* SHA-256 is modelled as collision free: the digest of x is Sha256(x).    *)
(* Names are decimal strings: sequences of digits 0..9, with the token     *)
(* DotPart standing for the substring ".part".                             *)
(***************************************************************************)
EXTENDS Integers, Sequences, FiniteSets, TLC

VARIABLES
    mode,       \* which system runs: "pack" (server job then one install), "client", ...
    tree,       \* the extracted source tree out/ given to the server job
    stage,      \* server job: "extracted", "manifest", "chunked", "published", "failed"
    manifest,   \* work dir manifest.json of the server job (present = FALSE before manifest.py)
    chunksDir,  \* work dir chunks/: chunk index -> archive
    srvGame,    \* server games/<id>/: [exists, nested, flat, manifest, config]
    job,        \* the job runner main.py: its cursor state.json, its position, its work dir
    statuses,   \* DownloadManager._statuses[id]: a DownloadStatus, or present = FALSE
    cancel_events, \* DownloadManager._cancel_events[id]: NoEvent or the event's owner
    events,     \* the threading.Event of every start: thread -> is_set()
    th,         \* the pipeline threads: thread -> locals of _run_pipeline
    work,       \* client downloads/<id>/: the staging tree, or exists = FALSE
    game,       \* client games/<id>/: the installed tree, or exists = FALSE
    saves,      \* the save settings of config.yaml and client saves/<id>/<savePath>
    hist,       \* history of each thread, read by the properties only
    USERS,      \* server.py USERS: the accounts in dict order, [username, api_key]
    process_data,   \* server.py process_data: the queue as the HTTP server holds it
    processes_json, \* processes/processes.json: the queue file
    wd          \* process.py: the position and locals of the watchdog's main loop

vars == <<mode, tree, stage, manifest, chunksDir, srvGame, job, statuses, cancel_events,
          events, th, work, game, saves, hist, USERS, process_data, processes_json, wd>>

hostVars == <<USERS, process_data, processes_json, wd>>

srvVars == <<tree, stage, manifest, chunksDir, srvGame, job>>

cliVars == <<statuses, cancel_events, events, th, work, game, saves, hist>>

-----------------------------------------------------------------------------
(* Program constants *)

PREFERRED_CHUNK_SIZE == 8 * 1024 * 1024

LARGE_FILE_SIZE == 32 * 1024 * 1024

DOWNLOAD_CHUNK_SIZE == 1024 * 1024

(* Bounds of the model *)

\* files in a source tree of the pack system
MaxFiles == 2

\* files in a source tree of the dense system
MaxSmallFiles == 3

\* full parts of the longest file of the sizes system
ManyParts == 10

\* accepted start(id) calls, i.e. pipeline threads ever created, in the client system
MaxStarts == 2

\* workers of the ProcessPoolExecutor (max_workers, or max(2, cpu_count))
Workers == 2

\* network blocks of DOWNLOAD_CHUNK_SIZE a compressed archive is at most long
MaxBlocks == 1

\* a second start(id) is explored for games of at most this many chunks
MaxRacedChunks == 2

\* times the job runner is killed
MaxCrashes == 1

\* times main.py is run on one work directory
MaxRuns == 3

\* no entry in _cancel_events
NoEvent == 0

-----------------------------------------------------------------------------
(* Sequences and sets *)

Min(a, b) == IF a <= b THEN a ELSE b

Max(a, b) == IF a >= b THEN a ELSE b

Range(s) == {s[i] : i \in DOMAIN s}

Reverse(s) == [i \in 1..Len(s) |-> s[Len(s) + 1 - i]]

RECURSIVE SumSeq(_)
SumSeq(s) == IF s = <<>> THEN 0 ELSE Head(s) + SumSeq(Tail(s))

\* the sequences without repetition over the set S (every enumeration order)
RECURSIVE Perms(_)
Perms(S) ==
    IF S = {} THEN {<<>>}
    ELSE UNION {{<<x>> \o p : p \in Perms(S \ {x})} : x \in S}

\* restriction of the function f to the set S
Restrict(f, S) == [x \in S |-> f[x]]

\* f with key k removed
Without(f, k) == [x \in (DOMAIN f) \ {k} |-> f[x]]

\* f with f[k] = v, k added to the domain when new
With(f, k, v) == [x \in (DOMAIN f) \cup {k} |-> IF x = k THEN v ELSE f[x]]

EmptyMap == <<>>

-----------------------------------------------------------------------------
(* Byte strings *)

ByteRun(c, off, len) == [c |-> c, off |-> off, len |-> len]

\* a file holding the first size bytes of stream c
FileBytes(c, size) == IF size = 0 THEN <<>> ELSE <<ByteRun(c, 0, size)>>

BLen(b) == SumSeq([i \in 1..Len(b) |-> b[i].len])

\* concatenation, as out.write(...) after out.write(...)
Cat(a, b) ==
    IF a = <<>> THEN b
    ELSE IF b = <<>> THEN a
    ELSE LET x == a[Len(a)]
             y == b[1]
         IN  IF x.c = y.c /\ x.off + x.len = y.off
             THEN SubSeq(a, 1, Len(a) - 1) \o <<ByteRun(x.c, x.off, x.len + y.len)>> \o Tail(b)
             ELSE a \o b

RECURSIVE CatAll(_)
CatAll(bs) == IF bs = <<>> THEN <<>> ELSE Cat(Head(bs), CatAll(Tail(bs)))

\* the first n bytes of b (f.read(n) at offset 0)
RECURSIVE Take(_, _)
Take(b, n) ==
    IF n = 0 \/ b = <<>> THEN <<>>
    ELSE IF b[1].len <= n THEN <<b[1]>> \o Take(Tail(b), n - b[1].len)
    ELSE <<ByteRun(b[1].c, b[1].off, n)>>

\* b without its first n bytes
RECURSIVE Drop(_, _)
Drop(b, n) ==
    IF n = 0 \/ b = <<>> THEN b
    ELSE IF b[1].len <= n THEN Drop(Tail(b), n - b[1].len)
    ELSE <<ByteRun(b[1].c, b[1].off + n, b[1].len - n)>> \o Tail(b)

Sha256(x) == <<"sha256", x>>

-----------------------------------------------------------------------------
(* Names *)

DotPart == 10

\* str(n)
RECURSIVE Str(_)
Str(n) == IF n < 10 THEN <<n>> ELSE Str(n \div 10) \o <<n % 10>>

\* int(s)
RECURSIVE Int_(_)
Int_(s) == IF Len(s) = 1 THEN s[1] ELSE 10 * Int_(SubSeq(s, 1, Len(s) - 1)) + s[Len(s)]

\* f"{name}.part{i}"
PartName(name, i) == name \o <<DotPart>> \o Str(i)

\* s.split(".part")[0]
SplitFirst(s) ==
    LET at == {i \in DOMAIN s : s[i] = DotPart}
    IN  IF at = {} THEN s
        ELSE SubSeq(s, 1, (CHOOSE i \in at : \A j \in at : i <= j) - 1)

\* s.split(".part")[-1]
SplitLast(s) ==
    LET at == {i \in DOMAIN s : s[i] = DotPart}
    IN  IF at = {} THEN s
        ELSE SubSeq(s, (CHOOSE i \in at : \A j \in at : i >= j) + 1, Len(s))

\* f"chunk_{chunk_index}.tar.xz"
ChunkName(chunk_index) == <<"chunk", chunk_index>>

-----------------------------------------------------------------------------
(* Paths: sequences of name components; sorted() compares them component-wise *)

RECURSIVE PathLess(_, _)
PathLess(p, q) ==
    IF q = <<>> THEN FALSE
    ELSE IF p = <<>> THEN TRUE
    ELSE IF p[1] # q[1] THEN p[1] < q[1]
    ELSE PathLess(Tail(p), Tail(q))

\* sorted(S) for a set of paths
RECURSIVE SortPaths(_)
SortPaths(S) ==
    IF S = {} THEN <<>>
    ELSE LET m == CHOOSE p \in S : \A q \in S \ {p} : PathLess(p, q)
         IN  <<m>> \o SortPaths(S \ {m})

IsUnder(p, dir) == Len(p) > Len(dir) /\ SubSeq(p, 1, Len(dir)) = dir

Parent(p) == SubSeq(p, 1, Len(p) - 1)

\* every proper, non-empty prefix of p: what mkdir(parents=True) creates for p's parent
Ancestors(p) == {SubSeq(p, 1, k) : k \in 1..(Len(p) - 1)}

\* sha256_folder(path): the digest of the files below path, in sorted order
Sha256Folder(files, path) ==
    LET below == {p \in DOMAIN files : IsUnder(p, path)}
        order == SortPaths(below)
    IN  Sha256(CatAll([i \in 1..Len(order) |-> files[order[i]]]))

-----------------------------------------------------------------------------
(* Source trees: the content of out/ after unzip.py *)

\* a file in the root folder, one in a folder of it, one in a second top-level folder
FilePaths == {<<1, 1>>, <<1, 2, 1>>, <<2, 1>>}

\* an empty file, the largest small file, the smallest medium and the smallest large one
FileSizes == {0, PREFERRED_CHUNK_SIZE - 1, PREFERRED_CHUNK_SIZE, LARGE_FILE_SIZE}

\* the byte stream a source file at path p is cut from: one stream per path
StreamOf(p) == 100 * Len(p) + 10 * p[1] + p[Len(p)]

\* a tree: its directories, its files, and the order rglob("*") yields the files in
MakeTree(walk, size, extra) ==
    [folders |-> UNION {Ancestors(p) : p \in Range(walk)} \cup extra,
     files   |-> [p \in Range(walk) |-> FileBytes(StreamOf(p), size[p])],
     walk    |-> walk]

TreesOver(paths, sizes, maxFiles) ==
    UNION {{MakeTree(w, sz, extra) : sz \in [Range(w) -> sizes],
                                     extra \in {{}, {<<1>>, <<1, 3>>}}} :
           w \in UNION {Perms(F) : F \in {G \in SUBSET paths : Cardinality(G) <= maxFiles}}}

Trees == TreesOver(FilePaths, FileSizes, MaxFiles)

NoManifest ==
    [present |-> FALSE, root |-> <<>>, folders |-> {}, files |-> <<>>, chunks |-> <<>>,
     hash |-> Sha256(<<>>)]

-----------------------------------------------------------------------------
(* manifest.py *)

\* a classification whose thresholds belong to the class below them
Category_Strict(size) ==
    IF size > LARGE_FILE_SIZE THEN "large"
    ELSE IF size > PREFERRED_CHUNK_SIZE THEN "medium"
    ELSE "small"

\* the size classification of manifest.py
Category(size) ==
    IF size >= LARGE_FILE_SIZE THEN "large"
    ELSE IF size >= PREFERRED_CHUNK_SIZE THEN "medium"
    ELSE "small"

\* the top-level directories of out/, sorted
TopFolders(t) == SortPaths({p \in t.folders : Len(p) = 1})

\* manifest.py listing only the folders that hold a file
ManifestPy_NoEmptyFolders(t) ==
    LET first_folder == TopFolders(t)[1]
    IN  [present |-> TRUE,
         root    |-> first_folder,
         folders |-> {d \in t.folders : \E p \in DOMAIN t.files : IsUnder(p, d)},
         files   |-> [i \in 1..Len(t.walk) |->
                        [path     |-> t.walk[i],
                         name     |-> Str(i - 1),
                         size     |-> BLen(t.files[t.walk[i]]),
                         hash     |-> Sha256(t.files[t.walk[i]]),
                         category |-> Category(BLen(t.files[t.walk[i]]))]],
         chunks  |-> <<>>,
         hash    |-> Sha256Folder(t.files, first_folder)]

\* the manifest written by manifest.py (defined when out/ has a top-level directory)
ManifestPy(t) ==
    LET first_folder == TopFolders(t)[1]
    IN  [present |-> TRUE,
         root    |-> first_folder,
         folders |-> t.folders,
         files   |-> [i \in 1..Len(t.walk) |->
                        [path     |-> t.walk[i],
                         name     |-> Str(i - 1),
                         size     |-> BLen(t.files[t.walk[i]]),
                         hash     |-> Sha256(t.files[t.walk[i]]),
                         category |-> Category(BLen(t.files[t.walk[i]]))]],
         chunks  |-> <<>>,
         hash    |-> Sha256Folder(t.files, first_folder)]

-----------------------------------------------------------------------------
(* chunk.py *)

\* a tar.xz archive: its members in the order they were added
\* (intact: the xz stream decodes; cut: the bytes missing at its end)
Archive(members) == [members |-> members, intact |-> TRUE, cut |-> 0]

\* a splitter that writes full parts only
RECURSIVE split_file_FullOnly(_)
split_file_FullOnly(b) ==
    IF BLen(b) < PREFERRED_CHUNK_SIZE THEN <<>>
    ELSE <<Take(b, PREFERRED_CHUNK_SIZE)>> \o split_file_FullOnly(Drop(b, PREFERRED_CHUNK_SIZE))

\* split_file: the parts f.read(PREFERRED_CHUNK_SIZE) yields, in order
RECURSIVE split_file(_)
split_file(b) ==
    IF b = <<>> THEN <<>>
    ELSE <<Take(b, PREFERRED_CHUNK_SIZE)>> \o split_file(Drop(b, PREFERRED_CHUNK_SIZE))

FilesOfCategory(m, cat) == SelectSeq(m.files, LAMBDA f : f.category = cat)

ChunkEntry(chunk_index, files, archive, category) ==
    [name        |-> ChunkName(chunk_index),
     chunk_index |-> chunk_index,
     files       |-> files,
     hash        |-> Sha256(archive),
     category    |-> category]

\* the archive of a small chunk: every file of the batch under its stored name
SmallArchive(t, current_files) ==
    Archive([i \in 1..Len(current_files) |->
                [name |-> current_files[i].name, data |-> t.files[current_files[i].path]]])

CloseBatch(t, st) ==
    LET a == SmallArchive(t, st.current_files)
    IN  [st EXCEPT
            !.chunks = Append(@, ChunkEntry(st.chunk_index,
                                  [i \in 1..Len(st.current_files) |-> st.current_files[i].name],
                                  a, "small")),
            !.archives = With(@, st.chunk_index, a)]

\* a small pass that closes its batch after every file
RECURSIVE SmallLoop_Eager(_, _, _)
SmallLoop_Eager(t, todo, st) ==
    IF todo = <<>> THEN st
    ELSE LET added == [st EXCEPT !.current_files = Append(@, Head(todo)),
                                 !.current_size = @ + Head(todo).size]
         IN  SmallLoop_Eager(t, Tail(todo),
                 [CloseBatch(t, added) EXCEPT !.chunk_index = @ + 1,
                                              !.current_files = <<>>,
                                              !.current_size = 0])

\* the small pass: the loop of chunk.py over moved_files
RECURSIVE SmallLoop(_, _, _)
SmallLoop(t, todo, st) ==
    IF todo = <<>> THEN st
    ELSE LET added == [st EXCEPT !.current_files = Append(@, Head(todo)),
                                 !.current_size = @ + Head(todo).size]
         IN  IF added.current_size >= PREFERRED_CHUNK_SIZE
             THEN SmallLoop(t, Tail(todo),
                      [CloseBatch(t, added) EXCEPT !.chunk_index = @ + 1,
                                                   !.current_files = <<>>,
                                                   !.current_size = 0])
             ELSE SmallLoop(t, Tail(todo), added)

\* a small pass that drops the batch left open after the last file
SmallPass_NoResidual(t, m) ==
    LET st == SmallLoop(t, FilesOfCategory(m, "small"),
                  [current_files |-> <<>>, current_size |-> 0, chunk_index |-> 0,
                   chunks |-> <<>>, archives |-> EmptyMap])
    IN  [st EXCEPT !.chunk_index = @ + 1]

\* the small pass with its residual batch; chunk_index is then advanced once more
SmallPass(t, m) ==
    LET st == SmallLoop(t, FilesOfCategory(m, "small"),
                  [current_files |-> <<>>, current_size |-> 0, chunk_index |-> 0,
                   chunks |-> <<>>, archives |-> EmptyMap])
        residual == IF st.current_files # <<>> THEN CloseBatch(t, st) ELSE st
    IN  [residual EXCEPT !.chunk_index = @ + 1]

\* the medium pass: one file per chunk, chunk_index + i
RECURSIVE MediumLoop(_, _, _, _)
MediumLoop(t, moved_files, i, st) ==
    IF i > Len(moved_files) THEN [st EXCEPT !.chunk_index = @ + Len(moved_files)]
    ELSE LET meta == moved_files[i]
             idx == st.chunk_index + (i - 1)
             a == Archive(<<[name |-> meta.name, data |-> t.files[meta.path]]>>)
         IN  MediumLoop(t, moved_files, i + 1,
                 [st EXCEPT !.chunks = Append(@, ChunkEntry(idx, <<meta.name>>, a, "medium")),
                            !.archives = With(@, idx, a)])

MediumPass(t, m, st) == MediumLoop(t, FilesOfCategory(m, "medium"), 1, st)

\* the part files split_file leaves in largeFiles_split/, in creation order
RECURSIVE LargeParts(_, _)
LargeParts(t, large_files) ==
    IF large_files = <<>> THEN <<>>
    ELSE LET meta == Head(large_files)
             ps == split_file(t.files[meta.path])
         IN  [i \in 1..Len(ps) |-> [name |-> PartName(meta.name, i - 1), data |-> ps[i]]]
             \o LargeParts(t, Tail(large_files))

\* the orders in which rglob("*") may list largeFiles_split/: as created, reversed, or
\* the entries at the odd positions of the creation order before the other ones
Listings == {"created", "reversed", "interleaved"}

Listed(parts, listing) ==
    IF listing = "created" THEN parts
    ELSE IF listing = "reversed" THEN Reverse(parts)
    ELSE SelectSeq(parts, LAMBDA x : \E i \in DOMAIN parts : parts[i] = x /\ i % 2 = 1)
         \o SelectSeq(parts, LAMBDA x : \E i \in DOMAIN parts : parts[i] = x /\ i % 2 = 0)

\* the large pass: one part per chunk, chunk_index + i in listing order
RECURSIVE LargeLoop(_, _, _)
LargeLoop(parts, i, st) ==
    IF i > Len(parts) THEN [st EXCEPT !.chunk_index = @ + Len(parts)]
    ELSE LET idx == st.chunk_index + (i - 1)
             a == Archive(<<parts[i]>>)
         IN  LargeLoop(parts, i + 1,
                 [st EXCEPT !.chunks = Append(@, ChunkEntry(idx, <<parts[i].name>>, a, "large")),
                            !.archives = With(@, idx, a)])

LargePass(t, m, st, listing) ==
    LargeLoop(Listed(LargeParts(t, FilesOfCategory(m, "large")), listing), 1, st)

\* sorted(data["chunks"], key=lambda c: c["chunk_index"])
RECURSIVE SortChunks(_)
SortChunks(cs) ==
    IF cs = <<>> THEN <<>>
    ELSE LET k == CHOOSE i \in DOMAIN cs : \A j \in DOMAIN cs :
                      cs[i].chunk_index < cs[j].chunk_index
                      \/ (cs[i].chunk_index = cs[j].chunk_index /\ i <= j)
         IN  <<cs[k]>> \o SortChunks([i \in 1..(Len(cs) - 1) |-> IF i < k THEN cs[i] ELSE cs[i + 1]])

\* chunk.py: the three passes; the chunks directory and the chunk list of the manifest
ChunkPy(t, m, listing) ==
    LET st == LargePass(t, m, MediumPass(t, m, SmallPass(t, m)), listing)
    IN  [archives |-> st.archives, chunks |-> SortChunks(st.chunks)]

-----------------------------------------------------------------------------
(* final.py *)

\* games/<id>/ does not exist; owner is the user field of its config.yaml, short the
\* chunks whose transfer ends one byte before the declared Content-Length
NoGame ==
    [exists |-> FALSE, hasChunks |-> FALSE, nested |-> EmptyMap, flat |-> EmptyMap,
     manifest |-> NoManifest, config |-> FALSE, owner |-> "", short |-> {}]

\* final.py: shutil.move("chunks", games/<id>) renames chunks to games/<id> when that
\* directory does not exist and moves it inside it when it does; steam is isSteamGame
\* and getSteamData of config.yaml, for which games/<id>/ is made first
FinalPy(g, archives, m, steam) ==
    LET dst == IF steam THEN [g EXCEPT !.exists = TRUE] ELSE g
    IN  IF dst.exists
        THEN [dst EXCEPT !.hasChunks = TRUE, !.nested = archives,
                         !.manifest = m, !.config = TRUE]
        ELSE [dst EXCEPT !.exists = TRUE, !.flat = archives,
                         !.manifest = m, !.config = TRUE]

\* final.py fails when games/<id>/chunks already exists
FinalFails(g, steam) == g.exists /\ g.hasChunks

-----------------------------------------------------------------------------
(* server.py: the download endpoints; a response is [code, body] *)

NotFound == [code |-> 404, body |-> <<>>]

Ok(body) == [code |-> 200, body |-> body]

\* GET /games/{id}/downloadchunk/{chunk_id}
download_chunk(g, chunk_id) ==
    IF g.exists /\ g.hasChunks /\ chunk_id \in DOMAIN g.nested
    THEN Ok(g.nested[chunk_id])
    ELSE NotFound

\* GET /games/{id}/download/manifest.json
download_manifest(g) ==
    IF g.exists /\ g.manifest.present THEN Ok(g.manifest) ELSE NotFound

\* GET /games/{id}/download/config.yaml
download_config(g) ==
    IF g.exists /\ g.config THEN Ok(<<>>) ELSE NotFound

-----------------------------------------------------------------------------
(* Progress values: the float n/d as a reduced fraction <<n, d>> *)

RECURSIVE Gcd(_, _)
Gcd(a, b) == IF b = 0 THEN a ELSE Gcd(b, a % b)

Frac(n, d) == IF n = 0 THEN <<0, 1>> ELSE <<n \div Gcd(n, d), d \div Gcd(n, d)>>

\* min(1.0, n / d)
Min1(n, d) == IF n >= d THEN <<1, 1>> ELSE Frac(n, d)

\* a / b <= c / d for naturals a, c and positive b, d, by their continued fractions
RECURSIVE RatLeq(_, _, _, _)
RatLeq(a, b, c, d) ==
    IF a \div b # c \div d THEN a \div b < c \div d
    ELSE IF a % b = 0 THEN TRUE
    ELSE IF c % d = 0 THEN FALSE
    ELSE RatLeq(d, c % d, b, a % b)

FracLeq(x, y) == RatLeq(x[1], x[2], y[1], y[2])

-----------------------------------------------------------------------------
(* downloader.py: the status registry *)

\* DownloadStatus(id=game_id)
DownloadStatus ==
    [present |-> TRUE, status |-> "idle", download |-> <<0, 1>>, process |-> <<0, 1>>,
     error |-> "", bytes_total |-> 0, bytes_done |-> 0]

NoStatus == [DownloadStatus EXCEPT !.present = FALSE]

\* _set_status(game_id, **kwargs): the record is created when the registry has none
set_status(st, kwargs) ==
    LET cur == IF st.present THEN st ELSE DownloadStatus
    IN  [f \in DOMAIN cur |-> IF f \in DOMAIN kwargs THEN kwargs[f] ELSE cur[f]]

\* start() without the early return
StartRejected_Never(st) == FALSE

\* start(): the early return for a job that is running
StartRejected(st) == st.present /\ st.status \in {"downloading", "processing"}

-----------------------------------------------------------------------------
(* downloader.py: the staging tree downloads/<id>/ and the game tree games/<id>/ *)

StagingDirs == {"chunks", "tmp_small", "tmp_large", "items"}

\* downloads/<id>/ does not exist
NoStaging ==
    [exists |-> FALSE, sub |-> {}, chunks |-> EmptyMap, items |-> EmptyMap,
     parts |-> EmptyMap, config |-> FALSE, manifest |-> FALSE]

\* downloads/<id>/ after _safe_rmtree, _ensure_dir and the four _ensure_dir of its subdirectories
FreshStaging == [NoStaging EXCEPT !.exists = TRUE, !.sub = StagingDirs]

\* mkdir(parents=True, exist_ok=True) of a directory below downloads/<id>/<d>/
EnsureSub(w, d) == [w EXCEPT !.exists = TRUE, !.sub = @ \cup {d}]

\* games/<id>/ does not exist
NoGameDir ==
    [exists |-> FALSE, folders |-> {}, files |-> EmptyMap, config |-> FALSE,
     manifest |-> FALSE]

\* the length of the compressed archive on the wire: its payload and the container
\* around it, within the bound on archive lengths
WireLen(a) ==
    Min(SumSeq([i \in 1..Len(a.members) |-> BLen(a.members[i].data)]) + 1,
        MaxBlocks * DOWNLOAD_CHUNK_SIZE)

\* sha256_file of a chunk file
sha256_chunk(data) == Sha256(data)

\* process_chunk without the chunk hash check
ChunkHashOk_Skipped(data, chunk_meta) == TRUE

\* process_chunk: the chunk hash check (expected_hash is never empty)
ChunkHashOk(data, chunk_meta) == sha256_chunk(data) = chunk_meta.hash

\* process_chunk: the file hash check
FileHashOk(data, meta) == Sha256(data) = meta.hash

\* file_map = {f["name"]: f for f in manifest["files"]}
FileMap(m) == [n \in {m.files[i].name : i \in DOMAIN m.files} |->
                  m.files[CHOOSE i \in DOMAIN m.files : m.files[i].name = n]]

Result(w, err) == [w |-> w, err |-> err]

\* process_chunk, small and medium: every member is looked up, verified and moved to items/
RECURSIVE MoveItems(_, _, _)
MoveItems(w, members, file_map) ==
    IF members = <<>> THEN Result(w, "")
    ELSE LET file == Head(members)
         IN  IF file.name \notin DOMAIN file_map THEN Result(w, "Unknown file")
             ELSE IF ~FileHashOk(file.data, file_map[file.name])
             THEN Result(w, "Hash mismatch")
             ELSE IF "items" \notin w.sub THEN Result(w, "FileNotFoundError")
             ELSE MoveItems([w EXCEPT !.items = With(@, file_map[file.name].name, file.data)],
                            Tail(members), file_map)

\* process_chunk, large: every part is moved to tmp_large/<base_name>/
RECURSIVE MoveParts(_, _)
MoveParts(w, members) ==
    IF members = <<>> THEN w
    ELSE LET part == Head(members)
             base_name == SplitFirst(part.name)
             dir == IF base_name \in DOMAIN w.parts THEN w.parts[base_name] ELSE EmptyMap
         IN  MoveParts([EnsureSub(w, "tmp_large") EXCEPT
                           !.parts = With(@, base_name, With(dir, part.name, part.data))],
                       Tail(members))

\* process_chunk(chunk_path, chunk_meta, file_map, ...): the staging tree it leaves and
\* the message of the exception it raises ("" when it returns)
process_chunk(w, chunk_meta, file_map) ==
    IF ~(w.exists /\ chunk_meta.name \in DOMAIN w.chunks)
    THEN Result(w, "FileNotFoundError")
    ELSE LET data == w.chunks[chunk_meta.name].data
             small == chunk_meta.category \in {"small", "medium"}
             w1 == EnsureSub(w, IF small THEN "tmp_small" ELSE "tmp_large")
         IN  IF ~ChunkHashOk(data, chunk_meta) THEN Result(w, "Chunk hash mismatch")
             ELSE IF ~data.intact \/ data.cut > 0 THEN Result(w1, "ReadError")
             ELSE LET r == IF small THEN MoveItems(w1, data.members, file_map)
                           ELSE Result(MoveParts(w1, data.members), "")
                  IN  IF r.err # "" THEN r
                      ELSE Result([r.w EXCEPT !.chunks = Without(@, chunk_meta.name)], "")

\* the parts in the order of their names as strings
SortParts_ByName(names) == SortPaths(names)

\* sorted(parts_dir.iterdir(), key=lambda p: int(p.name.split(".part")[-1]))
RECURSIVE SortParts(_)
SortParts(names) ==
    IF names = {} THEN <<>>
    ELSE LET m == CHOOSE p \in names :
                      \A q \in names : Int_(SplitLast(p)) <= Int_(SplitLast(q))
         IN  <<m>> \o SortParts(names \ {m})

\* join_file(parts_dir, output): the bytes written to output
join_file(dir) ==
    LET parts == SortParts(DOMAIN dir)
    IN  CatAll([i \in 1..Len(parts) |-> dir[parts[i]]])

\* merge_large_file(meta, tmp_large_dir, items_dir)
merge_large_file(w, meta) ==
    IF ~(w.exists /\ meta.name \in DOMAIN w.parts) THEN Result(w, "Missing parts")
    ELSE IF "items" \notin w.sub THEN Result(w, "FileNotFoundError")
    ELSE LET output == join_file(w.parts[meta.name])
             w1 == [w EXCEPT !.items = With(@, meta.name, output)]
         IN  IF ~FileHashOk(output, meta) THEN Result(w1, "Hash mismatch")
             ELSE Result([w1 EXCEPT !.parts = Without(@, meta.name)], "")

\* the install loop of _run_pipeline: shutil.move(items/<name>, games/<id>/<path>) for
\* every file, up to the first file that is missing from items/
RECURSIVE MoveFiles(_, _, _)
MoveFiles(w, g, files) ==
    IF files = <<>> THEN [w |-> w, g |-> g, err |-> ""]
    ELSE LET meta == Head(files)
         IN  IF ~(w.exists /\ meta.name \in DOMAIN w.items)
             THEN [w |-> w, g |-> [g EXCEPT !.exists = TRUE,
                                            !.folders = @ \cup Ancestors(meta.path)],
                   err |-> "FileNotFoundError"]
             ELSE MoveFiles([w EXCEPT !.items = Without(@, meta.name)],
                            [g EXCEPT !.exists = TRUE,
                                      !.folders = @ \cup Ancestors(meta.path),
                                      !.files = With(@, meta.path, w.items[meta.name])],
                            Tail(files))

\* progress = (processed_chunks + merged) / (total_chunks + total_merge), min(1.0, ...)
MergeProgressOf(processed_chunks, merged, n_chunks, total_merge) ==
    Min1(processed_chunks + merged, n_chunks + total_merge)

\* the root hash check of _run_pipeline
RootHashOk(g, m) == Sha256Folder(g.files, m.root) = m.hash

-----------------------------------------------------------------------------
(* app.py preserve_saves and downloader.py _restore_saves *)

\* a game without saveInGameFolder: on and path are saveInGameFolder and savePath of
\* config.yaml (the path relative to games/<id>/), kind, data, files and folders what
\* saves/<id>/<savePath> is ("none", a "file" with its data, a "dir" with its tree in
\* paths relative to it), written the path the game wrote its save data to, deleted
\* whether the game was deleted after that
NoSaves ==
    [on |-> FALSE, path |-> <<>>, kind |-> "none", data |-> <<>>, files |-> EmptyMap,
     folders |-> {}, written |-> <<>>, deleted |-> FALSE]

\* path p relative to its ancestor base
Rel(p, base) == SubSeq(p, Len(base) + 1, Len(p))

IsFile(g, p) == p \in DOMAIN g.files

IsDir(g, p) == p \in g.folders

Exists(g, p) == IsFile(g, p) \/ IsDir(g, p)

\* the map f overlaid with the map h
Merge(f, h) == [k \in (DOMAIN f) \cup (DOMAIN h) |-> IF k \in DOMAIN h THEN h[k] ELSE f[k]]

\* what is at path p of g, as an item: a file with its data or a directory with its tree
ItemAt(g, p) ==
    IF IsFile(g, p)
    THEN [kind |-> "file", data |-> g.files[p], files |-> EmptyMap, folders |-> {}]
    ELSE [kind |-> "dir", data |-> <<>>,
          files |-> [r \in {Rel(q, p) : q \in {x \in DOMAIN g.files : IsUnder(x, p)}} |->
                        g.files[p \o r]],
          folders |-> {Rel(q, p) : q \in {x \in g.folders : IsUnder(x, p)}}]

\* g without path p and everything below it
RemovePath(g, p) ==
    [g EXCEPT !.files = Restrict(@, {q \in DOMAIN @ : q # p /\ ~IsUnder(q, p)}),
              !.folders = {q \in @ : q # p /\ ~IsUnder(q, p)}]

\* the item put at path p of g (os.rename onto a free path or onto a file)
Place(g, p, item) ==
    IF item.kind = "file"
    THEN [g EXCEPT !.files = With(@, p, item.data)]
    ELSE [g EXCEPT !.files = Merge(@, [q \in {p \o r : r \in DOMAIN item.files} |->
                                          item.files[Rel(q, p)]]),
                   !.folders = @ \cup {p} \cup {p \o r : r \in item.folders}]

\* shutil.move(item, target): into target when that is a directory (an error when the
\* name is taken there), else onto target
shutil_move(g, item, name, target) ==
    IF IsDir(g, target)
    THEN IF Exists(g, target \o <<name>>)
         THEN [g |-> g, err |-> "Destination path already exists"]
         ELSE [g |-> Place(g, target \o <<name>>, item), err |-> ""]
    ELSE IF IsFile(g, target) /\ item.kind = "dir"
    THEN [g |-> g, err |-> "FileExistsError"]
    ELSE [g |-> Place(g, target, item), err |-> ""]

\* preserve_saves(base_dir, game_id): the save path is moved to saves/<id>/<savePath>
preserve_saves(g, sv) ==
    IF ~(g.exists /\ g.config /\ sv.on) \/ sv.path = <<>> \/ ~Exists(g, sv.path)
    THEN [g |-> g, sv |-> sv]
    ELSE LET item == ItemAt(g, sv.path)
         IN  [g |-> RemovePath(g, sv.path),
              sv |-> [sv EXCEPT !.kind = item.kind, !.data = item.data,
                                !.files = item.files, !.folders = item.folders]]

\* the entries of the saved directory, and the saved directory as a game tree
SavedNames(sv) == {r[1] : r \in (DOMAIN sv.files) \cup sv.folders}

SavedTree(sv) == [files |-> sv.files, folders |-> sv.folders]

\* _restore_saves, lines 257-258: the entries are moved one by one; left are the
\* entries still in saves/ when an exception ends the loop
RECURSIVE MoveSaved(_, _, _, _)
MoveSaved(g, sv, names, dest) ==
    IF names = <<>> THEN [g |-> g, left |-> {}, err |-> ""]
    ELSE LET name == Head(names)
             r == shutil_move(g, ItemAt(SavedTree(sv), <<name>>), name, dest \o <<name>>)
         IN  IF r.err # "" THEN [g |-> g, left |-> Range(names), err |-> r.err]
             ELSE MoveSaved(r.g, sv, Tail(names), dest)

\* saves/<id>/<savePath> is gone
Cleared(sv) == [sv EXCEPT !.kind = "none", !.data = <<>>, !.files = EmptyMap, !.folders = {}]

\* a restore that replaces whatever is at the save path by what was saved
restore_saves_Overwrite(g, sv, order) ==
    IF ~sv.on \/ sv.path = <<>> \/ sv.kind = "none" THEN [g |-> g, sv |-> sv, err |-> ""]
    ELSE [g |-> Place(RemovePath([g EXCEPT !.folders = @ \cup Ancestors(sv.path)], sv.path),
                      sv.path,
                      [kind |-> sv.kind, data |-> sv.data, files |-> sv.files,
                       folders |-> sv.folders]),
          sv |-> Cleared(sv), err |-> ""]

\* _restore_saves(game_id, config, game_dir), with the order iterdir() lists the saved
\* directory in: the game tree, the saves and the message of the exception raised
restore_saves(g, sv, order) ==
    LET dest == sv.path
        made == [g EXCEPT !.folders = @ \cup Ancestors(dest)]
    IN  IF ~sv.on \/ dest = <<>> \/ sv.kind = "none" THEN [g |-> g, sv |-> sv, err |-> ""]
        ELSE IF sv.kind = "dir"
        THEN IF IsDir(g, dest)
             THEN LET r == MoveSaved(g, sv, order, dest)
                  IN  IF r.err = "" THEN [g |-> r.g, sv |-> Cleared(sv), err |-> ""]
                      ELSE [g |-> r.g,
                            sv |-> [sv EXCEPT
                                      !.files = Restrict(@, {q \in DOMAIN @ : q[1] \in r.left}),
                                      !.folders = {q \in @ : q[1] \in r.left}],
                            err |-> r.err]
             ELSE IF IsFile(g, dest) THEN [g |-> g, sv |-> sv, err |-> ""]
             ELSE [g |-> Place(made, dest, [kind |-> "dir", data |-> <<>>,
                                            files |-> sv.files, folders |-> sv.folders]),
                   sv |-> Cleared(sv), err |-> ""]
        ELSE IF IsDir(made, dest) THEN [g |-> made, sv |-> sv, err |-> ""]
        ELSE [g |-> Place(made, dest, [kind |-> "file", data |-> sv.data,
                                       files |-> EmptyMap, folders |-> {}]),
              sv |-> Cleared(sv), err |-> ""]

-----------------------------------------------------------------------------
(* downloader.py: the pipeline threads *)

Threads == 1..MaxStarts

\* the locals of one _run_pipeline call; futs and merges hold, per chunk and per large
\* file, the state of the future submitted for it:
\* "none", "queued", "ok", "failed" (err is its exception) or "collected"
NoThread ==
    [pc |-> "none", ci |-> 1, blk |-> 0, futs |-> <<>>, merges |-> <<>>,
     downloaded_bytes |-> 0, processed_chunks |-> 0, merged |-> 0, err |-> ""]

NoFuture == [st |-> "none", err |-> ""]

\* a thread that returned from _run_pipeline: its locals are gone
Returned == [NoThread EXCEPT !.pc = "done"]

\* the manifest a pipeline thread fetched: games/<id>/manifest.json of the server
M == srvGame.manifest

\* total_bytes = sum(sizes) or 1
total_bytes ==
    LET n == SumSeq([i \in 1..Len(M.files) |-> M.files[i].size])
    IN  IF n = 0 THEN 1 ELSE n

\* total_chunks = len(chunks) or 1
total_chunks == IF Len(M.chunks) = 0 THEN 1 ELSE Len(M.chunks)

\* large_files = [f for f in manifest["files"] if f["category"] == "large"]
large_files == FilesOfCategory(M, "large")

MergeProgress(processed_chunks, merged) ==
    MergeProgressOf(processed_chunks, merged, total_chunks, Len(large_files))

\* the futures of fs in state st
InState(fs, st) == {k \in DOMAIN fs : fs[k].st = st}

\* the submitted tasks the pool is executing: the first Workers unfinished ones
Executing(fs) ==
    {k \in InState(fs, "queued") : Cardinality({j \in InState(fs, "queued") : j < k}) < Workers}

\* an exception raised in _run_pipeline: inside a with-pool block the pool is shut down
\* (its tasks finish) before the handler runs
Raise(t, msg, inPool) ==
    [th[t] EXCEPT !.err = msg, !.pc = IF inPool THEN "pool_exit" ELSE "except"]

Touch(t) == [hist EXCEPT !.touched[t] = TRUE]

\* lines 331-340: the staging tree is wiped and made. In the live system a mkdir may
\* raise (the file system refuses the directory): these lines stand before the try
\* block, so the exception ends the thread, with downloads/<id>/ not made or made
\* without all its subdirectories
SetupStaging(t) ==
    /\ th[t].pc = "setup"
    /\ \/ /\ work' = FreshStaging
          /\ th' = [th EXCEPT ![t].pc = "prefetch"]
       \/ /\ mode = "live"
          /\ work' \in {NoStaging, [NoStaging EXCEPT !.exists = TRUE]}
          /\ th' = [th EXCEPT ![t] = Returned]
    /\ UNCHANGED <<mode, hostVars, srvVars, saves, statuses, cancel_events, events, game, hist>>

\* lines 343-376: config.yaml and manifest.json are fetched and written, the status is set
Prefetch(t) ==
    /\ th[t].pc = "prefetch"
    /\ LET config_r == download_config(srvGame)
           manifest_r == download_manifest(srvGame)
       IN  IF config_r.code # 200
           THEN /\ th' = [th EXCEPT ![t] = Raise(t, "HTTPError", FALSE)]
                /\ UNCHANGED <<work, statuses>>
           ELSE IF ~work.exists
           THEN /\ th' = [th EXCEPT ![t] = Raise(t, "FileNotFoundError", FALSE)]
                /\ UNCHANGED <<work, statuses>>
           ELSE IF manifest_r.code # 200
           THEN /\ th' = [th EXCEPT ![t] = Raise(t, "HTTPError", FALSE)]
                /\ work' = [work EXCEPT !.config = TRUE]
                /\ UNCHANGED statuses
           ELSE /\ work' = [work EXCEPT !.config = TRUE, !.manifest = TRUE]
                /\ statuses' = set_status(statuses,
                       [bytes_total |-> total_bytes, bytes_done |-> 0, download |-> <<0, 1>>,
                        process |-> <<0, 1>>, status |-> "downloading", error |-> ""])
                /\ th' = [th EXCEPT ![t].pc = "loop", ![t].ci = 1,
                                    ![t].futs = [k \in 1..Len(M.chunks) |-> NoFuture]]
    /\ UNCHANGED <<mode, hostVars, srvVars, saves, cancel_events, events, game, hist>>

\* lines 386-391 and _download_stream up to open(): the loop ends, or breaks on the
\* cancel event, or the next chunk is requested and its file created empty
LoopHead(t) ==
    /\ th[t].pc = "loop"
    /\ IF th[t].ci > Len(M.chunks) \/ events[t]
       THEN /\ th' = [th EXCEPT ![t].pc = "drain"]
            /\ UNCHANGED work
       ELSE LET chunk == M.chunks[th[t].ci]
                r == download_chunk(srvGame, chunk.chunk_index)
                w == [EnsureSub(work, "chunks") EXCEPT !.chunks = Without(@, chunk.name)]
            IN  IF r.code # 200
                THEN /\ work' = w
                     /\ th' = [th EXCEPT ![t] = Raise(t, "HTTPError", TRUE)]
                ELSE /\ work' = [w EXCEPT !.chunks = With(@, chunk.name,
                                     [data |-> [r.body EXCEPT !.cut = WireLen(r.body)],
                                      owner |-> t])]
                     /\ th' = [th EXCEPT ![t].pc = "download", ![t].blk = 0]
    /\ UNCHANGED <<mode, hostVars, srvVars, saves, statuses, cancel_events, events, game, hist>>

\* _download_stream, one round of the iter_content loop: return on the cancel event,
\* else write the block and report it through on_bytes. A transfer that ends before
\* the declared Content-Length ends the loop like a complete one, or raises in
\* iter_content when the HTTP library enforces the length
DownloadBlock(t) ==
    /\ th[t].pc = "download"
    /\ IF events[t]
       THEN /\ th' = [th EXCEPT ![t].pc = "after_dl"]
            /\ UNCHANGED <<work, statuses, hist>>
       ELSE LET chunk == M.chunks[th[t].ci]
                body == download_chunk(srvGame, chunk.chunk_index).body
                off == th[t].blk * DOWNLOAD_CHUNK_SIZE
                len == Min(DOWNLOAD_CHUNK_SIZE, WireLen(body) - off)
                last == off + len = WireLen(body)
                short == last /\ chunk.chunk_index \in srvGame.short
                got == IF short THEN len - 1 ELSE len
                mine == /\ work.exists
                        /\ chunk.name \in DOMAIN work.chunks
                        /\ work.chunks[chunk.name].owner = t
                downloaded_bytes == th[t].downloaded_bytes + got
                next == [th[t] EXCEPT !.blk = @ + 1, !.downloaded_bytes = downloaded_bytes]
            IN  /\ work' = IF mine
                           THEN [work EXCEPT !.chunks[chunk.name].data.cut = @ - got]
                           ELSE work
                /\ statuses' = IF got = 0 THEN statuses
                               ELSE set_status(statuses,
                                        [bytes_done |-> downloaded_bytes,
                                         download |-> Min1(downloaded_bytes, total_bytes)])
                /\ IF short
                   THEN \E enforced \in BOOLEAN :
                          th' = [th EXCEPT ![t] =
                                   IF enforced
                                   THEN [next EXCEPT !.err = "ChunkedEncodingError",
                                                     !.pc = "pool_exit"]
                                   ELSE [next EXCEPT !.pc = "after_dl"]]
                   ELSE th' = [th EXCEPT ![t] =
                                 [next EXCEPT !.pc = IF last THEN "after_dl" ELSE "download"]]
                /\ hist' = IF last /\ (short \/ Sha256(body) # chunk.hash)
                           THEN [hist EXCEPT !.gotBad[t] = TRUE]
                           ELSE hist
    /\ UNCHANGED <<mode, hostVars, srvVars, saves, cancel_events, events, game>>

\* lines 410-434: break on the cancel event, else submit process_chunk for the chunk and
\* collect the futures that are done (wait(futures, timeout=0)); the first failed one
\* raises, after any of the finished ones were counted
AfterDownload(t) ==
    /\ th[t].pc = "after_dl"
    /\ IF events[t]
       THEN /\ th' = [th EXCEPT ![t].pc = "drain"]
            /\ UNCHANGED statuses
       ELSE LET futs == [th[t].futs EXCEPT ![th[t].ci].st = "queued"]
                ok == InState(futs, "ok")
                failed == InState(futs, "failed")
            IN  \E done \in SUBSET ok :
                  /\ failed = {} => done = ok
                  /\ LET n == th[t].processed_chunks + Cardinality(done)
                         collected == [k \in DOMAIN futs |->
                                          IF k \in done THEN [futs[k] EXCEPT !.st = "collected"]
                                          ELSE futs[k]]
                     IN  /\ statuses' = IF done = {} THEN statuses
                                        ELSE set_status(statuses,
                                                 [process |-> Min1(n, total_chunks),
                                                  status |-> "processing"])
                         /\ IF failed = {}
                            THEN th' = [th EXCEPT ![t].futs = collected,
                                                  ![t].processed_chunks = n,
                                                  ![t].ci = @ + 1,
                                                  ![t].pc = "loop"]
                            ELSE \E k \in failed :
                                   th' = [th EXCEPT
                                            ![t] = [Raise(t, futs[k].err, TRUE) EXCEPT
                                                      !.futs = [collected EXCEPT ![k].st = "collected"],
                                                      !.processed_chunks = n]]
    /\ UNCHANGED <<mode, hostVars, srvVars, saves, cancel_events, events, work, game, hist>>

\* a pool worker runs process_chunk for chunk k of thread t
ProcessChunk(t, k) ==
    /\ th[t].pc \in {"loop", "download", "after_dl", "drain", "pool_exit"}
    /\ k \in Executing(th[t].futs)
    /\ LET r == process_chunk(work, M.chunks[k], FileMap(M))
       IN  /\ work' = r.w
           /\ th' = [th EXCEPT ![t].futs[k] =
                        IF r.err = "" THEN [st |-> "ok", err |-> ""]
                        ELSE [st |-> "failed", err |-> r.err]]
    /\ UNCHANGED <<mode, hostVars, srvVars, saves, statuses, cancel_events, events, game, hist>>

\* lines 436-443: as_completed hands over one finished future
AsCompleted(t) ==
    /\ th[t].pc = "drain"
    /\ \E k \in InState(th[t].futs, "ok") \cup InState(th[t].futs, "failed") :
         IF th[t].futs[k].st = "failed"
         THEN /\ th' = [th EXCEPT ![t] = [Raise(t, th[t].futs[k].err, TRUE) EXCEPT
                                            !.futs[k].st = "collected"]]
              /\ UNCHANGED statuses
         ELSE /\ th' = [th EXCEPT ![t].futs[k].st = "collected",
                                  ![t].processed_chunks = @ + 1]
              /\ statuses' = set_status(statuses,
                     [process |-> Min1(th[t].processed_chunks + 1, total_chunks),
                      status |-> "processing"])
    /\ UNCHANGED <<mode, hostVars, srvVars, saves, cancel_events, events, work, game, hist>>

\* a pool that is left while futures are still queued or uncollected
CancelCheck_NoWait(t) ==
    /\ th[t].pc = "drain"
    /\ IF events[t]
       THEN /\ statuses' = set_status(statuses, [status |-> "cancelled"])
            /\ th' = [th EXCEPT ![t].pc = "wipe"]
            /\ hist' = [hist EXCEPT !.final[t] = "cancelled"]
       ELSE IF Len(large_files) > 0
       THEN /\ statuses' = set_status(statuses, [status |-> "processing"])
            /\ th' = [th EXCEPT ![t].pc = "merging",
                                ![t].merges = [j \in 1..Len(large_files) |->
                                                  [st |-> "queued", err |-> ""]]]
            /\ UNCHANGED hist
       ELSE /\ th' = [th EXCEPT ![t].pc = "install"]
            /\ UNCHANGED <<statuses, hist>>
    /\ UNCHANGED <<mode, hostVars, srvVars, saves, cancel_events, events, work, game>>

\* lines 445-460: with every future collected the pool is left; the cancel event ends
\* the job as cancelled, else the large files are submitted for merging
CancelCheck(t) ==
    /\ th[t].pc = "drain"
    /\ \A k \in DOMAIN th[t].futs : th[t].futs[k].st \in {"none", "collected"}
    /\ IF events[t]
       THEN /\ statuses' = set_status(statuses, [status |-> "cancelled"])
            /\ th' = [th EXCEPT ![t].pc = "wipe"]
            /\ hist' = [hist EXCEPT !.final[t] = "cancelled"]
       ELSE IF Len(large_files) > 0
       THEN /\ statuses' = set_status(statuses, [status |-> "processing"])
            /\ th' = [th EXCEPT ![t].pc = "merging",
                                ![t].merges = [j \in 1..Len(large_files) |->
                                                  [st |-> "queued", err |-> ""]]]
            /\ UNCHANGED hist
       ELSE /\ th' = [th EXCEPT ![t].pc = "install"]
            /\ UNCHANGED <<statuses, hist>>
    /\ UNCHANGED <<mode, hostVars, srvVars, saves, cancel_events, events, work, game>>

\* a pool worker runs merge_large_file for large file j of thread t
MergeLargeFile(t, j) ==
    /\ th[t].pc \in {"merging", "pool_exit"}
    /\ j \in Executing(th[t].merges)
    /\ LET r == merge_large_file(work, large_files[j])
       IN  /\ work' = r.w
           /\ th' = [th EXCEPT ![t].merges[j] =
                        IF r.err = "" THEN [st |-> "ok", err |-> ""]
                        ELSE [st |-> "failed", err |-> r.err]]
    /\ UNCHANGED <<mode, hostVars, srvVars, saves, statuses, cancel_events, events, game, hist>>

\* lines 462-466: as_completed hands over one finished merge
MergeCollect(t) ==
    /\ th[t].pc = "merging"
    /\ \E j \in InState(th[t].merges, "ok") \cup InState(th[t].merges, "failed") :
         IF th[t].merges[j].st = "failed"
         THEN /\ th' = [th EXCEPT ![t] = [Raise(t, th[t].merges[j].err, TRUE) EXCEPT
                                            !.merges[j].st = "collected"]]
              /\ UNCHANGED statuses
         ELSE LET merged == th[t].merged + 1
              IN  /\ th' = [th EXCEPT ![t].merges[j].st = "collected",
                                      ![t].merged = merged,
                                      ![t].pc = IF merged = Len(large_files)
                                                THEN "install" ELSE "merging"]
                  /\ statuses' = set_status(statuses,
                         [process |-> MergeProgress(th[t].processed_chunks, merged)])
    /\ UNCHANGED <<mode, hostVars, srvVars, saves, cancel_events, events, work, game, hist>>

\* the with-pool block is left on an exception: shutdown waits for the submitted tasks
PoolExit(t) ==
    /\ th[t].pc = "pool_exit"
    /\ InState(th[t].futs, "queued") = {}
    /\ InState(th[t].merges, "queued") = {}
    /\ th' = [th EXCEPT ![t].pc = "except"]
    /\ UNCHANGED <<mode, hostVars, srvVars, saves, statuses, cancel_events, events, work, game, hist>>

\* lines 468-473: games/<id>/ is wiped and made, with the folders of the manifest
InstallWipe(t) ==
    /\ th[t].pc = "install"
    /\ game' = [NoGameDir EXCEPT !.exists = TRUE,
                                 !.folders = UNION {Ancestors(p) \cup {p} : p \in M.folders}]
    /\ th' = [th EXCEPT ![t].pc = "move"]
    /\ hist' = Touch(t)
    /\ UNCHANGED <<mode, hostVars, srvVars, saves, statuses, cancel_events, events, work>>

\* lines 475-485: the files are moved in and the root folder is verified
InstallMove(t) ==
    /\ th[t].pc = "move"
    /\ LET r == MoveFiles(work, game, M.files)
       IN  /\ work' = r.w
           /\ game' = r.g
           /\ th' = [th EXCEPT ![t] =
                        IF r.err # "" THEN Raise(t, r.err, FALSE)
                        ELSE IF ~RootHashOk(r.g, M)
                        THEN Raise(t, "Final root folder hash mismatch", FALSE)
                        ELSE [th[t] EXCEPT !.pc = "finish"]]
    /\ hist' = Touch(t)
    /\ UNCHANGED <<mode, hostVars, srvVars, saves, statuses, cancel_events, events>>

\* lines 487-492: config.yaml and manifest.json are moved in, the saves are restored,
\* the staging tree is wiped
InstallFinish(t) ==
    /\ th[t].pc = "finish"
    /\ IF ~(work.exists /\ work.config /\ game.exists)
       THEN /\ th' = [th EXCEPT ![t] = Raise(t, "FileNotFoundError", FALSE)]
            /\ UNCHANGED <<work, game, saves, hist>>
       ELSE IF ~work.manifest
       THEN /\ th' = [th EXCEPT ![t] = Raise(t, "FileNotFoundError", FALSE)]
            /\ work' = [work EXCEPT !.config = FALSE]
            /\ game' = [game EXCEPT !.config = TRUE]
            /\ hist' = Touch(t)
            /\ UNCHANGED saves
       ELSE \E order \in Perms(SavedNames(saves)) :
              LET r == restore_saves([game EXCEPT !.config = TRUE, !.manifest = TRUE],
                                     saves, order)
              IN  /\ game' = r.g
                  /\ saves' = r.sv
                  /\ hist' = Touch(t)
                  /\ IF r.err # ""
                     THEN /\ th' = [th EXCEPT ![t] = Raise(t, r.err, FALSE)]
                          /\ work' = [work EXCEPT !.config = FALSE, !.manifest = FALSE]
                     ELSE /\ th' = [th EXCEPT ![t].pc = "complete"]
                          /\ work' = NoStaging
    /\ UNCHANGED <<mode, hostVars, srvVars, statuses, cancel_events, events>>

\* lines 493-498
SetCompleted(t) ==
    /\ th[t].pc = "complete"
    /\ statuses' = set_status(statuses,
           [download |-> <<1, 1>>, process |-> <<1, 1>>, status |-> "completed"])
    /\ th' = [th EXCEPT ![t] = Returned]
    /\ hist' = [hist EXCEPT !.final[t] = "completed"]
    /\ UNCHANGED <<mode, hostVars, srvVars, saves, cancel_events, events, work, game>>

\* lines 499-504: the exception handler
Handler(t) ==
    /\ th[t].pc = "except"
    /\ statuses' = set_status(statuses, [status |-> "error", error |-> th[t].err])
    /\ th' = [th EXCEPT ![t].pc = "wipe"]
    /\ hist' = [hist EXCEPT !.final[t] = "error"]
    /\ UNCHANGED <<mode, hostVars, srvVars, saves, cancel_events, events, work, game>>

\* lines 447-448 and 505: _safe_rmtree(work_dir), then the thread returns
FinalWipe(t) ==
    /\ th[t].pc = "wipe"
    /\ work' = NoStaging
    /\ th' = [th EXCEPT ![t] = Returned]
    /\ UNCHANGED <<mode, hostVars, srvVars, saves, statuses, cancel_events, events, game, hist>>

PipelineStep(t) ==
    \/ SetupStaging(t)
    \/ Prefetch(t)
    \/ LoopHead(t)
    \/ DownloadBlock(t)
    \/ AfterDownload(t)
    \/ \E k \in DOMAIN th[t].futs : ProcessChunk(t, k)
    \/ AsCompleted(t)
    \/ CancelCheck(t)
    \/ \E j \in DOMAIN th[t].merges : MergeLargeFile(t, j)
    \/ MergeCollect(t)
    \/ PoolExit(t)
    \/ InstallWipe(t)
    \/ InstallMove(t)
    \/ InstallFinish(t)
    \/ SetCompleted(t)
    \/ Handler(t)
    \/ FinalWipe(t)

-----------------------------------------------------------------------------
(* downloader.py: start, stop, remove *)

\* the threads created so far
Started == {t \in Threads : th[t].pc # "none"}

\* start(game_id, ...) under the lock: a call that returns early changes nothing;
\* another one makes a new event and a new status record, and t is the thread started
start(st, ce, ev, t) ==
    IF StartRejected(st)
    THEN [statuses |-> st, cancel_events |-> ce, events |-> ev, thread |-> FALSE]
    ELSE [statuses |-> [DownloadStatus EXCEPT !.status = "downloading"],
          cancel_events |-> t,
          events |-> [ev EXCEPT ![t] = FALSE],
          thread |-> TRUE]

\* what a call of start(id) would do in the current state
StartNow == start(statuses, cancel_events, events, Cardinality(Started) + 1)

\* the starts explored: MaxStarts of them, one when the game has many chunks
StartsAllowed ==
    IF srvGame.manifest.present /\ Len(srvGame.manifest.chunks) > MaxRacedChunks
    THEN 1 ELSE MaxStarts

Start ==
    /\ Cardinality(Started) < StartsAllowed
    /\ statuses' = StartNow.statuses
    /\ cancel_events' = StartNow.cancel_events
    /\ events' = StartNow.events
    /\ th' = IF StartNow.thread
             THEN [th EXCEPT ![Cardinality(Started) + 1].pc = "setup"]
             ELSE th
    /\ UNCHANGED <<mode, hostVars, srvVars, saves, work, game, hist>>

\* the event of a thread that returned is read by nobody: it is kept as it is
SetEvent(ev, t) == IF t # NoEvent /\ th[t].pc # "done" THEN [ev EXCEPT ![t] = TRUE] ELSE ev

\* stop(game_id)
Stop ==
    /\ events' = SetEvent(events, cancel_events)
    /\ hist' = IF cancel_events # NoEvent /\ th[cancel_events].pc # "done"
                  /\ StartRejected(statuses)
               THEN [hist EXCEPT !.stopped[cancel_events] = TRUE]
               ELSE hist
    /\ UNCHANGED <<mode, hostVars, srvVars, saves, statuses, cancel_events, th, work, game>>

\* remove(game_id)
Remove ==
    /\ events' = SetEvent(events, cancel_events)
    /\ cancel_events' = NoEvent
    /\ statuses' = NoStatus
    /\ UNCHANGED <<mode, hostVars, srvVars, saves, th, work, game, hist>>

\* the installed game writes its save data to the path q below its save path
SaveData == FileBytes(999, 5)

WriteSave(q) ==
    /\ game.exists /\ statuses.present /\ statuses.status = "completed"
    /\ saves.written = <<>>
    /\ game' = [game EXCEPT !.files = With(@, q, SaveData), !.folders = @ \cup Ancestors(q)]
    /\ saves' = [saves EXCEPT !.written = q]
    /\ UNCHANGED <<mode, hostVars, srvVars, statuses, cancel_events, events, th, work, hist>>

\* app.py delete_game_folder(game_id): remove(game_id), then the saves are preserved
\* and games/<id>/ is removed
DeleteGameFolder ==
    /\ events' = SetEvent(events, cancel_events)
    /\ cancel_events' = NoEvent
    /\ statuses' = NoStatus
    /\ game' = NoGameDir
    /\ saves' = [(IF game.exists THEN preserve_saves(game, saves).sv ELSE saves)
                    EXCEPT !.deleted = (saves.written # <<>>)]
    /\ UNCHANGED <<mode, hostVars, srvVars, th, work, hist>>

-----------------------------------------------------------------------------
(* main.py: the stages of the server job *)

\* manifest.py; it fails when out/ has no top-level directory
RunManifest ==
    /\ mode = "pack"
    /\ stage = "extracted"
    /\ IF TopFolders(tree) = <<>>
       THEN stage' = "failed" /\ UNCHANGED manifest
       ELSE stage' = "manifest" /\ manifest' = ManifestPy(tree)
    /\ UNCHANGED <<mode, hostVars, tree, chunksDir, srvGame, job, cliVars>>

\* chunk.py
RunChunk ==
    /\ mode = "pack"
    /\ stage = "manifest"
    /\ \E listing \in Listings :
         LET r == ChunkPy(tree, manifest, listing)
         IN  /\ chunksDir' = r.archives
             /\ manifest' = [manifest EXCEPT !.chunks = r.chunks]
    /\ stage' = "chunked"
    /\ UNCHANGED <<mode, hostVars, tree, srvGame, job, cliVars>>

\* final.py
RunFinal ==
    /\ mode = "pack"
    /\ stage = "chunked"
    /\ \E steam \in BOOLEAN :
         /\ ~FinalFails(srvGame, steam)
         /\ srvGame' = FinalPy(srvGame, chunksDir, manifest, steam)
    /\ chunksDir' = EmptyMap
    /\ manifest' = NoManifest
    /\ stage' = "published"
    /\ UNCHANGED <<mode, hostVars, tree, job, cliVars>>

-----------------------------------------------------------------------------
(* main.py: the job runner, its cursor state.json, interruptions and restarts *)

\* the stages in the order main.py runs them
Stages == <<"unzip", "manifest", "chunk", "final">>

StageNo(name) == CHOOSE i \in 1..Len(Stages) : Stages[i] = name

\* round(num / den, 2) in hundredths, halves to the even neighbour
Round2(num, den) ==
    LET q == (100 * num) \div den
        r == (100 * num) % den
    IN  IF 2 * r > den \/ (2 * r = den /\ q % 2 = 1) THEN q + 1 ELSE q

\* the number of entries rglob("*") yields below out/, and of members of data.zip
TotalItems(t) == Cardinality(t.folders) + Len(t.walk)

\* the values unzip.py writes to app.log, in hundredths of a percent
UnzipLog(t) == [i \in 1..TotalItems(t) |-> Round2(10 * i, TotalItems(t))]

\* the values manifest.py writes in its loop, one per file
ManifestLog(t) == [i \in 1..Len(t.walk) |-> 1000 + Round2(20 * i, TotalItems(t)) - 100]

\* the values chunk.py writes: one per small batch closed in the loop, one per medium
\* file and one per part of a large file
ChunkLog(t, m, listing) ==
    LET small == FilesOfCategory(m, "small")
        closed == SmallLoop(t, small,
                      [current_files |-> <<>>, current_size |-> 0, chunk_index |-> 0,
                       chunks |-> <<>>, archives |-> EmptyMap]).chunk_index
        medium == Len(FilesOfCategory(m, "medium"))
        total == Len(SelectSeq(ChunkPy(t, m, listing).chunks, LAMBDA c : c.category = "large"))
    IN  [k \in 1..closed |-> 3000 + Round2(10 * k, Len(small))]
        \o [k \in 1..medium |-> 4000 + Round2(15 * k, medium)]
        \o [k \in 1..total |-> 5500 + Round2(40 * k, total)]

\* no job runs: step is state.json (0 when absent), local the step a run read at its
\* start, ran the stages the current run started, out the state of out/ ("none",
\* "full" after unzip.py, "moved" once chunk.py took the files), chunks and config
\* whether chunks/ and config.yaml are in the work directory, steam the isSteamGame and
\* getSteamData of config.yaml, listing the order rglob listed the parts in, by the
\* user create_game authenticated and user the user field of the submitted config
\* ("" when it has none), scratch the scratch directories of chunk.py that are in the
\* work directory, met those the last chunk.py found there when it started, log the
\* lines of app.log in hundredths of a percent
NoJob ==
    [pc |-> "off", step |-> 0, local |-> 0, ran |-> <<>>, crashes |-> 0, runs |-> 0,
     out |-> "none", chunks |-> FALSE, config |-> FALSE, steam |-> FALSE,
     listing |-> "created", by |-> "", user |-> "", scratch |-> {}, met |-> {},
     log |-> <<>>]

\* logger.info(...) of every value of lines
Logged(j, lines) == [j EXCEPT !.log = @ \o lines]

\* the passes of chunk.py, the large one before and after largeFiles is removed
Passes == {"small", "medium", "split", "large"}

\* the scratch directories in the work directory when chunk.py is killed in a pass:
\* the one the pass made, and those found at the start that no pass has removed yet
KilledIn(scratch, pass) ==
    CASE pass = "small"  -> scratch \cup {"smallFiles"}
      [] pass = "medium" -> (scratch \ {"smallFiles"}) \cup {"mediumFiles"}
      [] pass = "split"  -> (scratch \ {"smallFiles", "mediumFiles"})
                                \cup {"largeFiles", "largeFiles_split"}
      [] OTHER           -> {"largeFiles_split"}

\* run_step(script): the stage is started
Ran(j, name) == [j EXCEPT !.ran = Append(@, name)]

\* subprocess.run(..., check=True) raised: main.py ends with the cursor as it is
Failed(j) == [j EXCEPT !.pc = "failed"]

\* lines 37-41 and 53: the cursor is read, and the first stage to run is chosen
JobLoad ==
    /\ job.pc = "start"
    /\ job' = [job EXCEPT !.local = job.step,
                          !.pc = IF job.step < 3 THEN "unzip"
                                 ELSE IF job.step < 4 THEN "final" ELSE "log"]
    /\ UNCHANGED <<mode, hostVars, tree, stage, manifest, chunksDir, srvGame, cliVars>>

\* lines 42-43: out/ is removed and unzip.py extracts data.zip
JobUnzip ==
    /\ job.pc = "unzip"
    /\ job' = [Logged(Ran(job, "unzip"), UnzipLog(tree)) EXCEPT !.out = "full", !.pc = "save1"]
    /\ UNCHANGED <<mode, hostVars, tree, stage, manifest, chunksDir, srvGame, cliVars>>

\* save_state(step), lines 44, 47, 51 and 56
JobSave ==
    /\ job.pc \in {"save1", "save2", "save3", "save4"}
    /\ job' = [job EXCEPT
                 !.step = CASE job.pc = "save1" -> 1 [] job.pc = "save2" -> 2
                            [] job.pc = "save3" -> 3 [] OTHER -> 4,
                 !.pc = CASE job.pc = "save1" -> "manifest" [] job.pc = "save2" -> "chunk"
                          [] job.pc = "save3" -> "final" [] OTHER -> "log"]
    /\ UNCHANGED <<mode, hostVars, tree, stage, manifest, chunksDir, srvGame, cliVars>>

\* line 46: manifest.py, which needs a top-level directory in out/ and config.yaml
JobManifest ==
    /\ job.pc = "manifest"
    /\ IF TopFolders(tree) = <<>>
       THEN job' = Failed(Ran(job, "manifest")) /\ UNCHANGED manifest
       ELSE IF ~job.config
       THEN job' = Failed(Logged(Ran(job, "manifest"), ManifestLog(tree))) /\ UNCHANGED manifest
       ELSE /\ job' = [Logged(Ran(job, "manifest"), ManifestLog(tree) \o <<3000>>)
                         EXCEPT !.pc = "save2"]
            /\ manifest' = ManifestPy(tree)
    /\ UNCHANGED <<mode, hostVars, tree, stage, chunksDir, srvGame, cliVars>>

\* lines 49-50 and chunk.py up to line 212: chunks/ is removed, the files are taken out
\* of out/ and the archives are written; each pass makes its scratch directory with
\* exist_ok and removes it at its end
JobChunk ==
    /\ job.pc = "chunk"
    /\ \E listing \in Listings :
         /\ chunksDir' = ChunkPy(tree, manifest, listing).archives
         /\ job' = [Logged(Ran(job, "chunk"), ChunkLog(tree, manifest, listing))
                       EXCEPT !.out = "moved", !.chunks = TRUE,
                                             !.listing = listing, !.pc = "chunk_json",
                                             !.met = job.scratch, !.scratch = {}]
    /\ UNCHANGED <<mode, hostVars, tree, stage, manifest, srvGame, cliVars>>

\* chunk.py lines 216-219: the chunk list is sorted and manifest.json is rewritten
JobChunkManifest ==
    /\ job.pc = "chunk_json"
    /\ manifest' = [manifest EXCEPT !.chunks = ChunkPy(tree, manifest, job.listing).chunks]
    /\ job' = [job EXCEPT !.pc = "save3"]
    /\ UNCHANGED <<mode, hostVars, tree, stage, chunksDir, srvGame, cliVars>>

\* final.py line 134, shutil.move("chunks", games/<id>): chunks/ becomes games/<id>
\* when that does not exist, else games/<id>/chunks
final_move_chunks(g, archives) ==
    IF g.exists
    THEN [g EXCEPT !.hasChunks = TRUE, !.nested = archives]
    ELSE [g EXCEPT !.exists = TRUE, !.flat = archives]

\* lines 54-55 and final.py lines 116-128: out/ is removed, config.yaml is read and,
\* for a steam game, games/<id>/ is made
JobFinal ==
    /\ job.pc = "final"
    /\ IF ~job.config
       THEN job' = Failed([Ran(job, "final") EXCEPT !.out = "none"]) /\ UNCHANGED srvGame
       ELSE /\ job' = [Ran(job, "final") EXCEPT !.out = "none", !.pc = "mv_chunks"]
            /\ srvGame' = IF job.steam THEN [srvGame EXCEPT !.exists = TRUE] ELSE srvGame
    /\ UNCHANGED <<mode, hostVars, tree, stage, manifest, chunksDir, cliVars>>

\* final.py lines 130-134
JobMoveChunks ==
    /\ job.pc = "mv_chunks"
    /\ IF ~job.chunks \/ FinalFails(srvGame, job.steam)
       THEN job' = Failed(job) /\ UNCHANGED <<srvGame, chunksDir>>
       ELSE /\ srvGame' = final_move_chunks(srvGame, chunksDir)
            /\ chunksDir' = EmptyMap
            /\ job' = [job EXCEPT !.chunks = FALSE, !.pc = "mv_manifest"]
    /\ UNCHANGED <<mode, hostVars, tree, stage, manifest, cliVars>>

\* final.py line 136
JobMoveManifest ==
    /\ job.pc = "mv_manifest"
    /\ IF ~manifest.present
       THEN job' = Failed(job) /\ UNCHANGED <<srvGame, manifest>>
       ELSE /\ srvGame' = [srvGame EXCEPT !.manifest = manifest]
            /\ manifest' = NoManifest
            /\ job' = [job EXCEPT !.pc = "mv_config"]
    /\ UNCHANGED <<mode, hostVars, tree, stage, chunksDir, cliVars>>

\* final.py line 137
JobMoveConfig ==
    /\ job.pc = "mv_config"
    /\ srvGame' = [srvGame EXCEPT !.config = TRUE, !.owner = job.user]
    /\ job' = [job EXCEPT !.config = FALSE, !.pc = "save4"]
    /\ UNCHANGED <<mode, hostVars, tree, stage, manifest, chunksDir, cliVars>>

\* line 58: logger.info("100"), and main.py ends
JobEnd ==
    /\ job.pc = "log"
    /\ job' = [Logged(job, <<10000>>) EXCEPT !.pc = "done"]
    /\ UNCHANGED <<mode, hostVars, tree, stage, manifest, chunksDir, srvGame, cliVars>>

\* the places where main.py or the stage it runs can be killed
JobRunning ==
    job.pc \in {"start", "unzip", "save1", "manifest", "save2", "chunk", "chunk_json",
                "save3", "final", "mv_chunks", "mv_manifest", "mv_config", "save4", "log"}

\* the process is killed, between two steps of main.py or inside a pass of chunk.py
Interrupt ==
    /\ JobRunning
    /\ job.crashes < MaxCrashes
    /\ \/ job' = [job EXCEPT !.pc = "dead", !.crashes = @ + 1]
       \/ /\ job.pc = "chunk"
          /\ \E pass \in Passes :
                job' = [Ran(job, "chunk") EXCEPT !.pc = "dead", !.crashes = @ + 1,
                                                 !.out = "moved", !.chunks = TRUE,
                                                 !.met = job.scratch,
                                                 !.scratch = KilledIn(job.scratch, pass)]
    /\ UNCHANGED <<mode, hostVars, tree, stage, manifest, chunksDir, srvGame, cliVars>>

\* main.py is run again in the same work directory, by process_item, which removes
\* app.log first
Restart ==
    /\ job.pc \in {"dead", "failed", "done"}
    /\ job.runs < MaxRuns
    /\ job' = [job EXCEPT !.pc = "start", !.ran = <<>>, !.runs = @ + 1, !.log = <<>>]
    /\ UNCHANGED <<mode, hostVars, tree, stage, manifest, chunksDir, srvGame, cliVars>>

-----------------------------------------------------------------------------
(* server.py: the accounts *)

Names == {"u", "v", "w"}

Passwords == {"p", "q", "r"}

\* yaml.safe_dump writes the accounts sorted by username
Alphabet == <<"u", "v", "w">>

IndexOf(users, username) == CHOOSE i \in DOMAIN users : users[i].username = username

\* auth_user(request): the first account in dict order whose api_key is the key
\* presented; "" stands for the 401 answer
auth_user(users, api_key) ==
    LET hits == {i \in DOMAIN users : users[i].api_key = api_key}
    IN  IF hits = {} THEN ""
        ELSE users[CHOOSE i \in hits : \A j \in hits : i <= j].username

\* POST /register
register(username, password) ==
    /\ mode = "auth"
    /\ username # "" /\ password # ""
    /\ \A i \in DOMAIN USERS : USERS[i].username # username
    /\ USERS' = Append(USERS, [username |-> username, api_key |-> password])
    /\ UNCHANGED <<mode, srvVars, cliVars, process_data, processes_json, wd>>

\* POST /account/password with the key api_key
change_password(api_key, current_password, new_password) ==
    /\ mode = "auth"
    /\ LET user == auth_user(USERS, api_key)
       IN  /\ user # ""
           /\ USERS[IndexOf(USERS, user)].api_key = current_password
           /\ new_password # ""
           /\ USERS' = [USERS EXCEPT ![IndexOf(USERS, user)].api_key = new_password]
    /\ UNCHANGED <<mode, srvVars, cliVars, process_data, processes_json, wd>>

\* POST /account/delete with the key api_key
delete_account(api_key, current_password) ==
    /\ mode = "auth"
    /\ LET user == auth_user(USERS, api_key)
       IN  /\ user # ""
           /\ USERS[IndexOf(USERS, user)].api_key = current_password
           /\ USERS' = SelectSeq(USERS, LAMBDA a : a.username # user)
    /\ UNCHANGED <<mode, srvVars, cliVars, process_data, processes_json, wd>>

\* the accounts as load_users() reads them from users.yaml
load_users(users) ==
    LET named(n) == SelectSeq(users, LAMBDA a : a.username = n)
    IN  named(Alphabet[1]) \o named(Alphabet[2]) \o named(Alphabet[3])

\* the server is started: USERS and process_data are read from their files
ServerStart ==
    /\ mode \in {"auth", "queue"}
    /\ USERS' = load_users(USERS)
    /\ process_data' = processes_json
    /\ UNCHANGED <<mode, srvVars, cliVars, processes_json, wd>>

-----------------------------------------------------------------------------
(* server.py create_game and process.py: the queue processes.json *)

\* jobs enqueued
MaxJobs == 2

\* times the watchdog is started
MaxWatchdogRuns == 2

\* ProcessData(...).model_dump(); download and process in thousandths, as round(value, 3)
\* keeps them; url is whether download_url is set
ProcessData(id, download, url) ==
    [id |-> id, download |-> download, process |-> 0, download_url |-> url]

\* POST /upload (url FALSE) and POST /download (url TRUE): the entry is appended to the
\* list the server holds and the file is written from that list
create_game(url) ==
    /\ mode = "queue"
    /\ Len(process_data) < MaxJobs
    /\ \E id \in 1..MaxJobs :
         /\ \A i \in DOMAIN process_data : process_data[i].id # id
         /\ process_data' = Append(process_data,
                                   ProcessData(id, IF url THEN 0 ELSE 1000, url))
    /\ processes_json' = process_data'
    /\ UNCHANGED <<mode, srvVars, cliVars, USERS, wd>>

\* the entries of data with the given id
Entries(data, game_id) == {i \in DOMAIN data : data[i].id = game_id}

\* update_process_value(game_id, key, value): the first entry with the id gets the value
update_process_value(data, game_id, key, value) ==
    IF Entries(data, game_id) = {} THEN data
    ELSE LET i == CHOOSE k \in Entries(data, game_id) : \A j \in Entries(data, game_id) : k <= j
         IN  [data EXCEPT ![i] = IF key = "download" THEN [@ EXCEPT !.download = value]
                                 ELSE [@ EXCEPT !.process = value]]

\* remove_process(game_id)
remove_process(data, game_id) == SelectSeq(data, LAMBDA e : e.id # game_id)

\* item.get("download", 0) >= 1.0 and item.get("process", 0) >= 1.0
Complete(item) == item.download >= 1000 /\ item.process >= 1000

\* the watchdog at the top of its loop: data is the list the for loop runs over, i the
\* position in it, runs the times it was started; failed (the downloads and pipelines
\* that ended with an exception) and dropped (the ids removed as finished) are history
NoWatchdog ==
    [pc |-> "scan", data |-> <<>>, i |-> 1, runs |-> 1, failed |-> {}, dropped |-> {}]

\* the id the for loop is at
game_id == wd.data[wd.i].id

\* continue: the next item of the for loop, or sleep and the top of the main loop
Continue(w) ==
    IF w.i < Len(w.data) THEN [w EXCEPT !.i = @ + 1, !.pc = "item"]
    ELSE [w EXCEPT !.pc = "scan", !.data = <<>>, !.i = 1]

\* lines 234-243: the file is read and the complete entries are dropped from it
WdScan ==
    /\ mode = "queue"
    /\ wd.pc = "scan"
    /\ LET incomplete == SelectSeq(processes_json, LAMBDA e : ~Complete(e))
           gone == {processes_json[i].id : i \in {k \in DOMAIN processes_json :
                                                     Complete(processes_json[k])}}
       IN  /\ processes_json' = incomplete
           /\ wd' = [wd EXCEPT !.data = incomplete, !.i = 1, !.dropped = @ \cup gone,
                               !.pc = IF incomplete = <<>> THEN "scan" ELSE "item"]
    /\ UNCHANGED <<mode, srvVars, cliVars, USERS, process_data>>

\* lines 244-250: an item that is neither downloaded nor processed is downloaded
WdItem ==
    /\ mode = "queue"
    /\ wd.pc = "item"
    /\ LET item == wd.data[wd.i]
       IN  wd' = [wd EXCEPT !.pc = IF item.download < 1000 /\ item.process < 1000
                                    THEN "download" ELSE "reload1"]
    /\ UNCHANGED <<mode, srvVars, cliVars, USERS, process_data, processes_json>>

\* download_progress_writer: a fraction of the download is written to the file
WdDownloadProgress ==
    /\ mode = "queue"
    /\ wd.pc = "download"
    /\ processes_json' = update_process_value(processes_json, game_id, "download", 500)
    /\ wd' = [wd EXCEPT !.pc = "download_end"]
    /\ UNCHANGED <<mode, srvVars, cliVars, USERS, process_data>>

\* process_item_download, lines 160-174: download(...) returns or raises, and the
\* finally block writes download = 1.0; an exception ends the watchdog
WdDownloadEnd ==
    /\ mode = "queue"
    /\ wd.pc \in {"download", "download_end"}
    /\ processes_json' = update_process_value(processes_json, game_id, "download", 1000)
    /\ \E ok \in BOOLEAN :
         wd' = IF ok THEN [wd EXCEPT !.pc = "reload1"]
               ELSE [wd EXCEPT !.pc = "crashed", !.failed = @ \cup {<<game_id, "download">>}]
    /\ UNCHANGED <<mode, srvVars, cliVars, USERS, process_data>>

\* lines 252-259: the file is read again; a downloaded item is processed
WdReload1 ==
    /\ mode = "queue"
    /\ wd.pc = "reload1"
    /\ LET found == Entries(processes_json, game_id)
           item == processes_json[CHOOSE k \in found : \A j \in found : k <= j]
       IN  wd' = IF found = {} THEN Continue(wd)
                 ELSE IF item.download >= 1000 /\ item.process < 1000
                 THEN [wd EXCEPT !.pc = "process"]
                 ELSE [wd EXCEPT !.pc = "reload2"]
    /\ UNCHANGED <<mode, srvVars, cliVars, USERS, process_data, processes_json>>

\* process_progress_writer: the last line of app.log is written to the file
WdProcessProgress ==
    /\ mode = "queue"
    /\ wd.pc = "process"
    /\ processes_json' = update_process_value(processes_json, game_id, "process", 500)
    /\ wd' = [wd EXCEPT !.pc = "process_end"]
    /\ UNCHANGED <<mode, srvVars, cliVars, USERS, process_data>>

\* process_item, lines 208-218: main.py exits with 0 or not, and the finally block
\* writes process = 1.0; an exception ends the watchdog
WdProcessEnd ==
    /\ mode = "queue"
    /\ wd.pc \in {"process", "process_end"}
    /\ processes_json' = update_process_value(processes_json, game_id, "process", 1000)
    /\ \E ok \in BOOLEAN :
         wd' = IF ok THEN [wd EXCEPT !.pc = "reload2"]
               ELSE [wd EXCEPT !.pc = "crashed", !.failed = @ \cup {<<game_id, "process">>}]
    /\ UNCHANGED <<mode, srvVars, cliVars, USERS, process_data>>

\* lines 261-264: the file is read again; a complete item is removed from it
WdReload2 ==
    /\ mode = "queue"
    /\ wd.pc = "reload2"
    /\ LET found == Entries(processes_json, game_id)
           item == processes_json[CHOOSE k \in found : \A j \in found : k <= j]
       IN  IF found # {} /\ Complete(item)
           THEN /\ processes_json' = remove_process(processes_json, game_id)
                /\ wd' = [Continue(wd) EXCEPT !.dropped = @ \cup {game_id}]
           ELSE /\ wd' = Continue(wd)
                /\ UNCHANGED processes_json
    /\ UNCHANGED <<mode, srvVars, cliVars, USERS, process_data>>

\* process.py is started again after it ended with an exception
WdRestart ==
    /\ mode = "queue"
    /\ wd.pc = "crashed"
    /\ wd.runs < MaxWatchdogRuns
    /\ wd' = [wd EXCEPT !.pc = "scan", !.data = <<>>, !.i = 1, !.runs = @ + 1]
    /\ UNCHANGED <<mode, srvVars, cliVars, USERS, process_data, processes_json>>

\* no account, an empty queue, the watchdog at the top of its loop
InitHost ==
    /\ USERS = <<>>
    /\ process_data = <<>>
    /\ processes_json = <<>>
    /\ wd = NoWatchdog

-----------------------------------------------------------------------------
(* The two systems *)

NoHist ==
    [stopped |-> [t \in Threads |-> FALSE],
     touched |-> [t \in Threads |-> FALSE],
     gotBad |-> [t \in Threads |-> FALSE],
     final |-> [t \in Threads |-> ""]]

InitClient ==
    /\ statuses = NoStatus
    /\ cancel_events = NoEvent
    /\ events = [t \in Threads |-> FALSE]
    /\ th = [t \in Threads |-> NoThread]
    /\ work = NoStaging
    /\ game = NoGameDir
    /\ saves = NoSaves
    /\ hist = NoHist

\* the pack system: the server job on a source tree, then one install of the result
InitPack ==
    /\ mode = "pack"
    /\ InitHost
    /\ tree \in Trees
    /\ stage = "extracted"
    /\ manifest = NoManifest
    /\ chunksDir = EmptyMap
    /\ srvGame = NoGame
    /\ job = NoJob
    /\ InitClient

PackStart ==
    /\ mode = "pack"
    /\ stage = "published"
    /\ Started = {}
    /\ Start

NextPack ==
    \/ RunManifest
    \/ RunChunk
    \/ RunFinal
    \/ PackStart
    \/ \E t \in Threads : PipelineStep(t)

SpecPack == InitPack /\ [][NextPack]_vars

\* twenty files of 1 MiB in one folder
TwentyFiles ==
    MakeTree([k \in 1..20 |-> <<1, k>>], [p \in {<<1, k>> : k \in 1..20} |-> 1024 * 1024], {})

\* the dense system: manifest.py, chunk.py and final.py on trees of up to MaxSmallFiles
\* files that are small (empty, half a chunk, one byte less than a chunk) or medium,
\* and on the tree of twenty files
SmallTrees ==
    TreesOver(FilePaths,
              {0, PREFERRED_CHUNK_SIZE \div 2, PREFERRED_CHUNK_SIZE - 1, PREFERRED_CHUNK_SIZE},
              MaxSmallFiles)

InitDense ==
    /\ mode = "pack"
    /\ InitHost
    /\ tree \in SmallTrees \cup {TwentyFiles}
    /\ stage = "extracted"
    /\ manifest = NoManifest
    /\ chunksDir = EmptyMap
    /\ srvGame = NoGame
    /\ job = NoJob
    /\ InitClient

NextDense == RunManifest \/ RunChunk \/ RunFinal

SpecDense == InitDense /\ [][NextDense]_vars

\* the log system: main.py run once, without interruption, on an uploaded game of up
\* to MaxFiles files or of twenty files
InitLog ==
    /\ mode = "job"
    /\ InitHost
    /\ tree \in Trees \cup {TwentyFiles}
    /\ stage = "extracted"
    /\ manifest = NoManifest
    /\ chunksDir = EmptyMap
    /\ srvGame \in {NoGame, [NoGame EXCEPT !.exists = TRUE]}
    /\ \E steam \in BOOLEAN :
         job = [NoJob EXCEPT !.pc = "start", !.runs = 1, !.config = TRUE, !.steam = steam,
                             !.by = "u", !.user = "u"]
    /\ InitClient

NextLog ==
    \/ JobLoad
    \/ JobUnzip
    \/ JobSave
    \/ JobManifest
    \/ JobChunk
    \/ JobChunkManifest
    \/ JobFinal
    \/ JobMoveChunks
    \/ JobMoveManifest
    \/ JobMoveConfig
    \/ JobEnd

SpecLog == InitLog /\ [][NextLog]_vars

\* the sizes system: the server job and one install for a tree of one file whose size
\* is at a threshold of the classification or gives a last part of one byte, in five
\* or in eleven parts
BoundarySizes ==
    {0, PREFERRED_CHUNK_SIZE - 1, PREFERRED_CHUNK_SIZE, LARGE_FILE_SIZE - 1, LARGE_FILE_SIZE,
     LARGE_FILE_SIZE + 1, ManyParts * PREFERRED_CHUNK_SIZE + 1}

InitSizes ==
    /\ mode = "pack"
    /\ InitHost
    /\ tree \in {MakeTree(<<<<1, 1>>>>, [p \in {<<1, 1>>} |-> size], {}) : size \in BoundarySizes}
    /\ stage = "extracted"
    /\ manifest = NoManifest
    /\ chunksDir = EmptyMap
    /\ srvGame = NoGame
    /\ job = NoJob
    /\ InitClient

SpecSizes == InitSizes /\ [][NextPack]_vars

\* the job system: an uploaded game (data.zip and config.yaml in the work directory),
\* main.py run on it, killed and run again
InitJob ==
    /\ mode = "job"
    /\ InitHost
    /\ tree \in Trees
    /\ stage = "extracted"
    /\ manifest = NoManifest
    /\ chunksDir = EmptyMap
    /\ srvGame \in {NoGame, [NoGame EXCEPT !.exists = TRUE]}
    /\ \E steam \in BOOLEAN :
         job = [NoJob EXCEPT !.pc = "start", !.runs = 1, !.config = TRUE, !.steam = steam,
                             !.by = "u", !.user = "u"]
    /\ InitClient

NextJob ==
    \/ JobLoad
    \/ JobUnzip
    \/ JobSave
    \/ JobManifest
    \/ JobChunk
    \/ JobChunkManifest
    \/ JobFinal
    \/ JobMoveChunks
    \/ JobMoveManifest
    \/ JobMoveConfig
    \/ JobEnd
    \/ Interrupt
    \/ Restart

SpecJob == InitJob /\ [][NextJob]_vars


\* the game the server job publishes for tree t
Published(t, listing, steam) ==
    LET r == ChunkPy(t, ManifestPy(t), listing)
    IN  FinalPy(NoGame, r.archives, [ManifestPy(t) EXCEPT !.chunks = r.chunks], steam)

\* a published chunk whose bytes were changed after the manifest was written: "flipped"
\* no longer decodes, "emptied" is a well-formed archive without members
Tamper(g, chunk_index, kind) ==
    [g EXCEPT !.nested[chunk_index] =
        IF kind = "flipped" THEN [@ EXCEPT !.intact = FALSE] ELSE [@ EXCEPT !.members = <<>>]]

\* the trees of the client system: an empty root folder; a small and a medium file
EmptyTree == MakeTree(<<>>, <<>>, {<<1>>, <<1, 3>>})

TwoFiles ==
    MakeTree(<<<<2, 1>>, <<1, 1>>>>,
             [p \in {<<1, 1>>, <<2, 1>>} |->
                 IF p = <<1, 1>> THEN PREFERRED_CHUNK_SIZE ELSE PREFERRED_CHUNK_SIZE - 1], {})

OneLarge == MakeTree(<<<<1, 1>>>>, [p \in {<<1, 1>>} |-> LARGE_FILE_SIZE], {})

ClientTrees == {EmptyTree, TwoFiles, OneLarge}

\* what the server holds for the game id: nothing, the game published under
\* games/<id>/chunks/ or directly under games/<id>/, or a published game with one
\* chunk tampered with; the large file is served untouched from games/<id>/chunks/
GamesOf(t) ==
    LET g == Published(t, "created", TRUE)
        first == IF g.nested = EmptyMap THEN {}
                 ELSE {CHOOSE i \in DOMAIN g.nested : \A j \in DOMAIN g.nested : i <= j}
    IN  IF t = OneLarge THEN {g} ELSE
        {g, Published(t, "created", FALSE)}
        \cup (IF t = EmptyTree THEN {NoGame} ELSE {})
        \cup {Tamper(g, i, "flipped") : i \in first}
        \cup {Tamper(g, i, "emptied") : i \in (DOMAIN g.nested) \ first}

\* the client system: start, stop and remove in any order, against a fixed server
Init ==
    /\ mode = "client"
    /\ InitHost
    /\ tree \in ClientTrees
    /\ stage = "published"
    /\ manifest = NoManifest
    /\ chunksDir = EmptyMap
    /\ srvGame \in GamesOf(tree)
    /\ job = NoJob
    /\ InitClient

Next ==
    \/ Start
    \/ Stop
    \/ Remove
    \/ \E t \in Threads : PipelineStep(t)

Spec == Init /\ [][Next]_vars

\* the saves system: a game that keeps its saves in its folder is installed, writes
\* save data, is deleted while no install runs, and is installed again; saves/<id>/
\* is empty at first or holds what an earlier version of the game left
SaveTree ==
    MakeTree(<<<<1, 1>>, <<1, 2, 1>>>>,
             [p \in {<<1, 1>>, <<1, 2, 1>>} |-> PREFERRED_CHUNK_SIZE - 1], {<<1, 3>>})

\* savePath and the path the game writes to: a file or a directory, placed by the
\* installer or not
SaveScenarios ==
    {<<<<1, 7>>, <<1, 7>>>>, <<<<1, 1>>, <<1, 1>>>>, <<<<1, 3>>, <<1, 3, 7>>>>,
     <<<<1, 3>>, <<1, 3, 3, 7>>>>, <<<<1, 2>>, <<1, 2, 7>>>>, <<<<1>>, <<1, 7>>>>,
     <<<<1>>, <<1, 3, 7>>>>, <<<<8>>, <<8, 7>>>>}

SaveTarget(path) == {sc[2] : sc \in {x \in SaveScenarios : x[1] = path}}

\* saves/<id>/ as an earlier version of the game left it: a saved directory where the
\* game now has a file, a saved file where it now has a directory
OldSaves ==
    {[NoSaves EXCEPT !.on = TRUE, !.path = <<1, 1>>, !.kind = "dir",
                     !.files = With(EmptyMap, <<7>>, SaveData)],
     [NoSaves EXCEPT !.on = TRUE, !.path = <<1, 2>>, !.kind = "file", !.data = SaveData]}

InitSaves ==
    /\ mode = "saves"
    /\ InitHost
    /\ tree \in {SaveTree} \cup ClientTrees
    /\ stage = "published"
    /\ manifest = NoManifest
    /\ chunksDir = EmptyMap
    /\ srvGame \in {Published(tree, "created", TRUE)} \cup GamesOf(tree)
    /\ job = NoJob
    /\ statuses = NoStatus
    /\ cancel_events = NoEvent
    /\ events = [t \in Threads |-> FALSE]
    /\ th = [t \in Threads |-> NoThread]
    /\ work = NoStaging
    /\ game = NoGameDir
    /\ saves \in {[NoSaves EXCEPT !.on = on, !.path = sc[1]] :
                     on \in BOOLEAN, sc \in SaveScenarios} \cup OldSaves
    /\ hist = NoHist

NextSaves ==
    \/ Start
    \/ \E t \in Threads : PipelineStep(t)
    \/ \E q \in SaveTarget(saves.path) : WriteSave(q)
    \/ (\A t \in Threads : th[t].pc \in {"none", "done"}) /\ DeleteGameFolder

SpecSaves == InitSaves /\ [][NextSaves]_vars

\* a published game one chunk of which was packed with a file the file list of the
\* manifest does not have; the chunk list carries the hash of the chunk as it is served
Unlisted(g, chunk_index) ==
    LET a == Archive(Append(g.nested[chunk_index].members,
                            [name |-> <<9>>, data |-> FileBytes(9, 1)]))
    IN  [g EXCEPT !.nested[chunk_index] = a,
                  !.manifest.chunks =
                      [i \in DOMAIN @ |-> IF @[i].chunk_index = chunk_index
                                          THEN [@[i] EXCEPT !.hash = Sha256(a)]
                                          ELSE @[i]]]

\* the failure system: start and stop against a server that holds nothing, a sound
\* game, a game with a tampered chunk, a game with an unlisted file in a chunk or a
\* game one chunk of which arrives a byte short
InitFail ==
    /\ mode = "client"
    /\ InitHost
    /\ tree \in ClientTrees
    /\ stage = "published"
    /\ manifest = NoManifest
    /\ chunksDir = EmptyMap
    /\ srvGame \in GamesOf(tree)
                   \cup {Unlisted(Published(tree, "created", TRUE), i) :
                            i \in DOMAIN Published(tree, "created", TRUE).nested}
                   \cup {[Published(tree, "created", TRUE) EXCEPT !.short = {i}] :
                            i \in DOMAIN Published(tree, "created", TRUE).nested}
    /\ job = NoJob
    /\ InitClient

NextFail ==
    \/ Start
    \/ Stop
    \/ \E t \in Threads : PipelineStep(t)

SpecFail == InitFail /\ [][NextFail]_vars

\* the live system: the failure system on a file system that may refuse a directory,
\* with every pipeline thread and its pool running on as long as it has a step to take
InitLive ==
    /\ mode = "live"
    /\ InitHost
    /\ tree \in ClientTrees
    /\ stage = "published"
    /\ manifest = NoManifest
    /\ chunksDir = EmptyMap
    /\ srvGame \in GamesOf(tree)
                   \cup {Unlisted(Published(tree, "created", TRUE), i) :
                            i \in DOMAIN Published(tree, "created", TRUE).nested}
                   \cup {[Published(tree, "created", TRUE) EXCEPT !.short = {i}] :
                            i \in DOMAIN Published(tree, "created", TRUE).nested}
    /\ job = NoJob
    /\ InitClient

SpecLive == InitLive /\ [][NextFail]_vars /\ \A t \in Threads : WF_vars(PipelineStep(t))

\* the accounts of users.yaml
Users == {"u", "v"}

\* GET /account/games for user: whether the game is in the list
account_games(g, user) == g.exists /\ g.config /\ g.owner = user

\* the owner system: the job runner for a game a user submitted through create_game,
\* with a config that names that user, another user or no user
InitOwner ==
    /\ mode = "job"
    /\ InitHost
    /\ tree = TwoFiles
    /\ stage = "extracted"
    /\ manifest = NoManifest
    /\ chunksDir = EmptyMap
    /\ srvGame \in {NoGame, [NoGame EXCEPT !.exists = TRUE]}
    /\ \E steam \in BOOLEAN, by \in Users, user \in Users \cup {""} :
         job = [NoJob EXCEPT !.pc = "start", !.runs = 1, !.config = TRUE, !.steam = steam,
                             !.by = by, !.user = user]
    /\ InitClient

SpecOwner == InitOwner /\ [][NextJob]_vars

\* the accounts system: register, change-password and delete-account requests, and
\* restarts of the server
InitAuth ==
    /\ mode = "auth"
    /\ InitHost
    /\ tree = MakeTree(<<>>, <<>>, {})
    /\ stage = "extracted"
    /\ manifest = NoManifest
    /\ chunksDir = EmptyMap
    /\ srvGame = NoGame
    /\ job = NoJob
    /\ InitClient

NextAuth ==
    \/ \E username \in Names, password \in Passwords : register(username, password)
    \/ \E api_key, current_password, new_password \in Passwords :
          change_password(api_key, current_password, new_password)
    \/ \E api_key, current_password \in Passwords : delete_account(api_key, current_password)
    \/ ServerStart

SpecAuth == InitAuth /\ [][NextAuth]_vars

\* the queue system: uploads and downloads are enqueued while the watchdog works
\* through the queue, ends with an exception and is started again
InitQueue ==
    /\ mode = "queue"
    /\ InitHost
    /\ tree = MakeTree(<<>>, <<>>, {})
    /\ stage = "extracted"
    /\ manifest = NoManifest
    /\ chunksDir = EmptyMap
    /\ srvGame = NoGame
    /\ job = NoJob
    /\ InitClient

NextQueue ==
    \/ \E url \in BOOLEAN : create_game(url)
    \/ ServerStart
    \/ WdScan
    \/ WdItem
    \/ WdDownloadProgress
    \/ WdDownloadEnd
    \/ WdReload1
    \/ WdProcessProgress
    \/ WdProcessEnd
    \/ WdReload2
    \/ WdRestart

SpecQueue == InitQueue /\ [][NextQueue]_vars

-----------------------------------------------------------------------------
(* Properties *)

\* the root folder of the source tree
RootOf(t) == TopFolders(t)[1]

\* C1: packing a source tree (manifest, chunk, finalize) and installing the result to
\* `completed` yields every folder of the tree, every file at its path with its content,
\* and an installed root folder whose hash is the root hash of the tree
C1_RoundTrip ==
    hist.final[1] = "completed" =>
        /\ tree.folders \subseteq game.folders
        /\ \A p \in DOMAIN tree.files : p \in DOMAIN game.files /\ game.files[p] = tree.files[p]
        /\ DOMAIN game.files = DOMAIN tree.files
        /\ Sha256Folder(game.files, RootOf(tree)) = Sha256Folder(tree.files, RootOf(tree))

\* a completed install of a tree with an empty folder, a large file and a small one
C1_Witness ==
    /\ hist.final[1] = "completed"
    /\ <<1, 3>> \in tree.folders
    /\ \E p, q \in DOMAIN tree.files :
         /\ BLen(tree.files[p]) = LARGE_FILE_SIZE
         /\ BLen(tree.files[q]) = PREFERRED_CHUNK_SIZE - 1

\* C2: the chunk indices of the manifest chunk.py writes are exactly
\* 0 .. len(chunks)-1, without gaps or duplicates, for every set of files
C2_ChunkIndicesDense ==
    stage = "chunked" =>
        /\ {manifest.chunks[i].chunk_index : i \in DOMAIN manifest.chunks}
              = 0..(Len(manifest.chunks) - 1)
        /\ \A i, j \in DOMAIN manifest.chunks :
              manifest.chunks[i].chunk_index = manifest.chunks[j].chunk_index => i = j

\* thread t has run the first statements of _run_pipeline and has not returned
Running(t) == th[t].pc \notin {"none", "setup", "done"}

\* C3: at most one pipeline thread of the game id is running at any time, for any
\* interleaving of start, stop and remove with the steps of the threads
C3_OneThread == Cardinality({t \in Threads : Running(t)}) <= 1

\* C4: within one job the status fields download and process never decrease, through
\* chunk processing, merging and completion
C4_ProgressMonotone ==
    [][(statuses.present /\ statuses'.present) =>
          /\ FracLeq(statuses.download, statuses'.download)
          /\ FracLeq(statuses.process, statuses'.process)]_vars

\* C5: a job on which stop(id) was called while it was in downloading or processing ends
\* as cancelled, whatever the pipeline was doing
C5_StopCancels ==
    \A t \in Threads : (hist.stopped[t] /\ th[t].pc = "done") => hist.final[t] = "cancelled"

\* C6: once stop(id) was called on a running job, no step of its pipeline creates, moves
\* or deletes anything under games/<id>/
C6_NoWriteAfterStop ==
    [][\A t \in Threads : (hist.stopped[t] /\ th'[t] # th[t]) => game' = game]_vars

\* C7 as stated: a job that downloaded a chunk whose bytes differ from the hashed ones
\* ends in error, and touches nothing under games/<id>/
C7_TamperedEndsError ==
    \A t \in Threads :
        (hist.gotBad[t] /\ th[t].pc = "done") => (hist.final[t] = "error" /\ ~hist.touched[t])

\* C7: a job that downloaded a chunk whose bytes differ from the hashed ones never
\* completes and touches nothing under games/<id>/: it ends in error, or in cancelled
\* when its cancel event was set
C7_TamperedNeverInstalls ==
    \A t \in Threads :
        hist.gotBad[t] =>
            /\ ~hist.touched[t]
            /\ th[t].pc = "done" => hist.final[t] \in {"error", "cancelled"}
            /\ (th[t].pc = "done" /\ hist.final[t] = "cancelled") => events[t]

\* a job that met a tampered chunk and ended in error
C7_Witness ==
    \E t \in Threads : hist.gotBad[t] /\ th[t].pc = "done" /\ hist.final[t] = "error"

\* every file and folder of the manifest is installed, and the root folder hashes right
InstalledOk ==
    /\ game.exists
    /\ \A i \in DOMAIN M.files :
         /\ M.files[i].path \in DOMAIN game.files
         /\ Sha256(game.files[M.files[i].path]) = M.files[i].hash
    /\ M.folders \subseteq game.folders
    /\ Sha256Folder(game.files, M.root) = M.hash

\* C8: whenever a job reaches completed, every file entry of the manifest is at its path
\* with its hash, every folder exists, and the root folder hashes to manifest.hash
C8_CompletedIsInstalled ==
    [][\A t \in Threads :
          (hist'.final[t] = "completed" /\ hist.final[t] # "completed") => InstalledOk']_vars

\* C9: start(id) on a job in downloading or processing returns with the status record,
\* the cancel event and its flag as they were, and starts no thread
C9_StartIdempotent ==
    (statuses.present /\ statuses.status \in {"downloading", "processing"}) =>
        /\ StartNow.statuses = statuses
        /\ StartNow.cancel_events = cancel_events
        /\ StartNow.events = events
        /\ ~StartNow.thread

\* a job in processing, with files staged, on which start(id) can be called
C9_Witness ==
    /\ statuses.present
    /\ statuses.status = "processing"
    /\ work.items # EmptyMap
    /\ cancel_events # NoEvent
    /\ ~StartNow.thread

\* the status of the game id; no record reads as idle
StatusOf(st) == IF st.present THEN st.status ELSE "idle"

\* the edges of the install state machine
Edges ==
    {<<a, "downloading">> : a \in {"idle", "completed", "error", "cancelled"}}
    \cup {<<"downloading", b>> : b \in {"processing", "cancelled", "error"}}
    \cup {<<"processing", b>> : b \in {"completed", "cancelled", "error"}}

\* C10: every change of the status of a job follows an edge of the state machine;
\* completed is entered from processing only
C10_StateMachine ==
    [][StatusOf(statuses') # StatusOf(statuses) =>
          <<StatusOf(statuses), StatusOf(statuses')>> \in Edges]_vars

\* C11: a run of the job runner that read cursor k starts none of the first k stages,
\* and the first stage it starts is stage k+1
C11_CursorSkips ==
    /\ \A i \in DOMAIN job.ran : StageNo(job.ran[i]) > job.local
    /\ job.ran # <<>> => job.ran[1] = Stages[job.local + 1]

\* games/<id>/ holds the manifest of the tree with its chunk list, every archive of
\* chunk.py and config.yaml
PublishedComplete ==
    /\ srvGame.exists
    /\ srvGame.config
    /\ \E listing \in Listings :
         LET r == ChunkPy(tree, ManifestPy(tree), listing)
         IN  /\ srvGame.manifest = [ManifestPy(tree) EXCEPT !.chunks = r.chunks]
             /\ (srvGame.nested = r.archives \/ srvGame.flat = r.archives)

\* C12: a job runner that was killed and run again ends with cursor 4 and the chunk
\* set, manifest.json and config.yaml published (for an upload that has a root folder)
C12_ResumeCompletes ==
    (job.crashes > 0 /\ job.pc \in {"done", "failed"} /\ TopFolders(tree) # <<>>) =>
        (job.pc = "done" /\ job.step = 4 /\ PublishedComplete)

\* C13: once final.py has succeeded, every chunk of the published manifest is served
\* from games/<id>/chunks/chunk_N.tar.xz, and manifest.json and config.yaml are in
\* games/<id>/
C13_FinalLayout ==
    (job.pc = "save4" \/ job.step = 4) =>
        /\ srvGame.manifest.present
        /\ srvGame.config
        /\ \A i \in DOMAIN srvGame.manifest.chunks :
              LET c == srvGame.manifest.chunks[i]
                  r == download_chunk(srvGame, c.chunk_index)
              IN  r.code = 200 /\ Sha256(r.body) = c.hash

\* C14: with saveInGameFolder on, save data written to the save path of an installed
\* game is at that path again, with the same bytes, after the game was deleted and an
\* install of it completed
Reinstalled ==
    /\ saves.on /\ saves.deleted
    /\ statuses.present /\ statuses.status = "completed"

C14_SavesSurvive ==
    Reinstalled => (IsFile(game, saves.written) /\ game.files[saves.written] = SaveData)

\* the chunks of the manifest that carry the stored name n
ChunksOf(n) == {i \in DOMAIN manifest.chunks :
                  \E k \in DOMAIN manifest.chunks[i].files : manifest.chunks[i].files[k] = n}

\* the number of parts a file of the given size is split into
PartCount(size) == (size + PREFERRED_CHUNK_SIZE - 1) \div PREFERRED_CHUNK_SIZE

\* the chunk indices that carry a part of the large file with stored name n
RunOf(n) ==
    {manifest.chunks[i].chunk_index :
        i \in {j \in DOMAIN manifest.chunks :
                 /\ manifest.chunks[j].category = "large"
                 /\ SplitFirst(manifest.chunks[j].files[1]) = n}}

\* C15: in the manifest chunk.py writes, the stored name of every small or medium file
\* is in the files list of exactly one chunk, every part of a large file is carried by
\* exactly one large chunk, and the chunk indices of one large file are consecutive
C15_EachFileOnce ==
    stage \in {"chunked", "published"} =>
        \A i \in DOMAIN manifest.files :
            LET f == manifest.files[i]
            IN  IF f.category # "large"
                THEN /\ Cardinality(ChunksOf(f.name)) = 1
                     /\ \A c \in ChunksOf(f.name) :
                           manifest.chunks[c].category = f.category
                ELSE /\ \A p \in 0..(PartCount(f.size) - 1) :
                           /\ Cardinality(ChunksOf(PartName(f.name, p))) = 1
                           /\ \A c \in ChunksOf(PartName(f.name, p)) :
                                 /\ manifest.chunks[c].category = "large"
                                 /\ manifest.chunks[c].files = <<PartName(f.name, p)>>
                     /\ \A a, b \in RunOf(f.name) : \A x \in a..b : x \in RunOf(f.name)

\* the small chunks of the manifest, and the sum of the sizes of the files of a chunk
SmallChunks == {i \in DOMAIN manifest.chunks : manifest.chunks[i].category = "small"}

SizeOfName(n) == LET f == CHOOSE i \in DOMAIN manifest.files : manifest.files[i].name = n
                 IN  manifest.files[f].size

ChunkSize(i) ==
    SumSeq([k \in DOMAIN manifest.chunks[i].files |-> SizeOfName(manifest.chunks[i].files[k])])

\* C16: every small chunk of the manifest chunk.py writes, except the last small one,
\* holds files whose sizes sum to at least PREFERRED_CHUNK_SIZE
C16_ChunkDensity ==
    stage \in {"chunked", "published"} =>
        \A i \in SmallChunks :
            (\E j \in SmallChunks : j > i) => ChunkSize(i) >= PREFERRED_CHUNK_SIZE

\* a manifest with a full small chunk followed by a last small chunk that is not full
C16_Witness ==
    /\ stage = "chunked"
    /\ \E i, j \in SmallChunks :
         /\ i < j
         /\ ChunkSize(i) >= PREFERRED_CHUNK_SIZE
         /\ ChunkSize(j) < PREFERRED_CHUNK_SIZE

\* the chunks before the one thread t is downloading were downloaded and submitted,
\* the later ones were not requested yet
DownloadedPrefix(t) ==
    th[t].pc \in {"loop", "download", "after_dl"} =>
        \A k \in DOMAIN th[t].futs : (th[t].futs[k].st # "none") <=> (k < th[t].ci)

\* a thread past the pool without cancel or error has collected the future of every chunk
AllProcessed(t) ==
    th[t].pc \in {"merging", "install", "move", "finish", "complete"} =>
        /\ DOMAIN th[t].futs = 1..Len(M.chunks)
        /\ \A k \in DOMAIN th[t].futs : th[t].futs[k].st = "collected"
        /\ th[t].processed_chunks = Len(M.chunks)

\* a future is submitted once, run once by process_chunk, and collected once
FutureSteps ==
    {<<"none", "queued">>, <<"queued", "ok">>, <<"queued", "failed">>,
     <<"ok", "collected">>, <<"failed", "collected">>}

ProcessedOnce ==
    \A t \in Threads : \A k \in (DOMAIN th[t].futs) \cap (DOMAIN th'[t].futs) :
        th'[t].futs[k].st # th[t].futs[k].st =>
            <<th[t].futs[k].st, th'[t].futs[k].st>> \in FutureSteps

\* C17: a job downloads its chunks one at a time in the order of the manifest list, and
\* a job on its way to completed has left the pool with every chunk processed once
C17_ChunksInOrder ==
    /\ [](\A t \in Threads : DownloadedPrefix(t) /\ AllProcessed(t))
    /\ [][ProcessedOnce]_vars

\* a job of two or more chunks about to be set completed
C17_Witness ==
    \E t \in Threads :
        /\ th[t].pc = "complete"
        /\ Len(M.chunks) >= 2
        /\ \A k \in 1..Len(M.chunks) : th[t].futs[k].st = "collected"

\* the registry shows the job in a terminal state
Terminal == statuses.present /\ statuses.status \in {"completed", "cancelled", "error"}

\* a thread that has set the terminal status of its job leaves downloads/<id>/ as it is
NoLateTouch ==
    \A t \in Threads : (hist.final[t] # "" /\ th'[t] # th[t]) => work' = work

\* C18: whenever the registry shows a terminal state, downloads/<id>/ does not exist,
\* and the thread that set the state does not touch downloads/<id>/ afterwards
C18_TerminalMeansWiped ==
    /\ [](Terminal => ~work.exists)
    /\ [][NoLateTouch]_vars

\* the step is an accepted start(id): a pipeline thread is created
StartAccepted == \E t \in Threads : th[t].pc = "none" /\ th'[t].pc = "setup"

\* C19: a registry without a record for the game id, as remove(id) leaves it, gets a
\* record again only by start(id), never by a step of a pipeline thread
C19_RemovedStaysRemoved ==
    [][(~statuses.present /\ statuses'.present) => StartAccepted]_vars

\* archive member x of a chunk is unknown to the manifest: no file has its stored name,
\* or, in a large chunk, no large file has the name before ".part"
UnknownMember(x, chunk) ==
    IF chunk.category \in {"small", "medium"}
    THEN x.name \notin DOMAIN FileMap(M)
    ELSE SplitFirst(x.name) \notin {large_files[i].name : i \in DOMAIN large_files}

\* the server gives the install pipeline a reason to fail: a non-2xx answer for config,
\* manifest or a chunk, a chunk that does not have its hash, or a member that is unknown
\* or, as a small or medium file, does not have its hash
Defective ==
    \/ download_config(srvGame).code # 200
    \/ download_manifest(srvGame).code # 200
    \/ \E i \in DOMAIN M.chunks :
         LET r == download_chunk(srvGame, M.chunks[i].chunk_index)
         IN  \/ r.code # 200
             \/ Sha256(r.body) # M.chunks[i].hash
             \/ \E k \in DOMAIN r.body.members :
                  \/ UnknownMember(r.body.members[k], M.chunks[i])
                  \/ /\ M.chunks[i].category \in {"small", "medium"}
                     /\ ~FileHashOk(r.body.members[k].data, FileMap(M)[r.body.members[k].name])

\* the handler sets the state error with the message of the exception
HandlerSetsError ==
    \A t \in Threads :
        (th[t].pc = "except" /\ th'[t].pc # "except") =>
            /\ statuses'.present /\ statuses'.status = "error" /\ statuses'.error # ""
            /\ hist'.final[t] = "error"

\* a thread returns from a failed job with downloads/<id>/ removed, and never runs again
ReturnsWiped ==
    \A t \in Threads :
        /\ (hist.final[t] = "error" /\ th[t].pc # "done" /\ th'[t].pc = "done") => ~work'.exists
        /\ th[t].pc = "done" => th'[t].pc = "done"

\* C20: a job against a server that gives a reason to fail never ends completed; an
\* exception in the pipeline ends the job in state error with a non-empty message and
\* downloads/<id>/ removed, and the thread of the job does not run again
C20_FailureEndsError ==
    /\ [](\A t \in Threads : hist.final[t] = "completed" => ~Defective)
    /\ [][HandlerSetsError /\ ReturnsWiped]_vars

\* the manifests at hand: the one in the work directory and the published one
Manifests == {m \in {manifest, srvGame.manifest} : m.present}

\* C21: a file is large from 32 MiB on, medium from 8 MiB up to 32 MiB - 1 and small
\* below 8 MiB; 8 MiB - 1, 8 MiB, 32 MiB - 1 and 32 MiB are small, medium, medium, large
C21_Categories ==
    \A m \in Manifests : \A i \in DOMAIN m.files :
        LET f == m.files[i]
        IN  /\ f.category = "large" <=> f.size >= 32 * 1024 * 1024
            /\ f.category = "medium" <=> (f.size >= 8 * 1024 * 1024 /\ f.size < 32 * 1024 * 1024)
            /\ f.category = "small" <=> f.size < 8 * 1024 * 1024
            /\ f.size = 8 * 1024 * 1024 - 1 => f.category = "small"
            /\ f.size = 8 * 1024 * 1024 => f.category = "medium"
            /\ f.size = 32 * 1024 * 1024 - 1 => f.category = "medium"
            /\ f.size = 32 * 1024 * 1024 => f.category = "large"

\* manifest.py has classified a file of exactly 8 MiB
C21_Witness ==
    /\ stage = "manifest"
    /\ \E i \in DOMAIN manifest.files :
         manifest.files[i].size = 8 * 1024 * 1024 /\ manifest.files[i].category = "medium"

\* the parts of the large file with stored name n in the archives of chunks/, by name
PartsOf(n) ==
    LET members == UNION {Range(chunksDir[i].members) : i \in DOMAIN chunksDir}
        mine == {x \in members : DotPart \in Range(x.name) /\ SplitFirst(x.name) = n}
    IN  [name \in {x.name : x \in mine} |-> (CHOOSE x \in mine : x.name = name).data]

\* ceil(size / PREFERRED_CHUNK_SIZE)
CeilParts(size) == (size + PREFERRED_CHUNK_SIZE - 1) \div PREFERRED_CHUNK_SIZE

\* C22: a large file of size s with stored name n is split into ceil(s / 8 MiB) parts
\* n.part0, n.part1, ..., each of 8 MiB except possibly the last, and the parts
\* concatenated in index order are the file
C22_SplitParts ==
    stage = "chunked" =>
        \A i \in DOMAIN manifest.files :
            LET f == manifest.files[i]
                parts == PartsOf(f.name)
                count == CeilParts(f.size)
            IN  f.category = "large" =>
                  /\ DOMAIN parts = {PartName(f.name, k) : k \in 0..(count - 1)}
                  /\ \A k \in 0..(count - 2) :
                        BLen(parts[PartName(f.name, k)]) = PREFERRED_CHUNK_SIZE
                  /\ BLen(parts[PartName(f.name, count - 1)]) \in 1..PREFERRED_CHUNK_SIZE
                  /\ CatAll([k \in 1..count |-> parts[PartName(f.name, k - 1)]])
                        = tree.files[f.path]

\* chunk.py has split a file into full parts and a last part of one byte
C22_Witness ==
    /\ stage = "chunked"
    /\ \E i \in DOMAIN manifest.files :
         /\ manifest.files[i].category = "large"
         /\ PartName(manifest.files[i].name, 4) \in DOMAIN PartsOf(manifest.files[i].name)
         /\ BLen(PartsOf(manifest.files[i].name)[PartName(manifest.files[i].name, 4)]) = 1

\* C23: the parts of a large file are joined in the order of their integer suffix, so
\* the file joined in items/, and then installed, is the file that was split, also
\* for more than ten parts
C23_JoinRestores ==
    \A i \in DOMAIN M.files :
        LET f == M.files[i]
        IN  f.category = "large" =>
              /\ f.name \in DOMAIN work.items => work.items[f.name] = tree.files[f.path]
              /\ f.path \in DOMAIN game.files => game.files[f.path] = tree.files[f.path]

\* a file of more than ten parts has been joined in items/
C23_Witness ==
    \E i \in DOMAIN M.files :
        /\ CeilParts(M.files[i].size) > 10
        /\ M.files[i].name \in DOMAIN work.items
        /\ work.items[M.files[i].name] = tree.files[M.files[i].path]

\* C24: once the pipeline has published a game user u submitted, GET /account/games
\* lists it for u and for no other user, whatever the user field of the config was
C24_OwnerStamped ==
    (job.by # "" /\ job.step = 4) =>
        \A v \in Users : account_games(srvGame, v) <=> v = job.by

\* thread t counts a processed chunk or a merged large file in this step
Counts(t) ==
    /\ th[t].pc \in {"after_dl", "drain", "merging"}
    /\ \/ th'[t].processed_chunks # th[t].processed_chunks
       \/ th'[t].merged # th[t].merged

\* C25: every status update made when a chunk was processed or a large file merged sets
\* process to (chunks_done + large_merges_done) / (total_chunks + total_large), which
\* is within 0 and 1
C25_ProcessFraction ==
    [][\A t \in Threads :
          Counts(t) =>
            /\ statuses'.process = Frac(th'[t].processed_chunks + th'[t].merged,
                                        Len(M.chunks) + Len(large_files))
            /\ FracLeq(<<0, 1>>, statuses'.process)
            /\ FracLeq(statuses'.process, <<1, 1>>)]_vars

\* thread t is in the download loop or collecting, with a chunk submitted to the pool
Enqueued(t) ==
    /\ th[t].pc \in {"loop", "download", "after_dl", "drain"}
    /\ th[t].err = ""
    /\ \E k \in DOMAIN th[t].futs : th[t].futs[k].st # "none"

\* C26: from the moment the first chunk is submitted to the worker pool the status is
\* processing, also while later chunks are downloaded
C26_ProcessingOnSubmit ==
    \A t \in Threads : Enqueued(t) => (statuses.present /\ statuses.status = "processing")

\* the chunk file thread t is writing
Writing(t) == M.chunks[th[t].ci].name

\* the download of thread t ends in this step, not by cancel, with the file shorter
\* than the declared length
EndsShort(t) ==
    /\ th[t].pc = "download" /\ ~events[t]
    /\ th'[t].pc # "download"
    /\ Writing(t) \in DOMAIN work'.chunks => work'.chunks[Writing(t)].data.cut > 0

\* C27: a chunk download that ends with fewer bytes than the declared Content-Length
\* fails with an error and leaves no partial file behind, and process_chunk is not
\* submitted for it
C27_ShortDownloadFails ==
    [][\A t \in Threads :
          EndsShort(t) => /\ th'[t].err # ""
                          /\ Writing(t) \notin DOMAIN work'.chunks]_vars

\* the download engine of thread t sees the cancel event set in this step
SeesCancel(t) == th[t].pc = "download" /\ events[t] /\ th'[t].pc # "download"

\* C28: when the download engine sees the cancel event during a chunk download it
\* writes no further block, reports no further progress and has deleted the partly
\* written chunk file when it returns
C28_CancelDeletesPartial ==
    [][\A t \in Threads :
          SeesCancel(t) => /\ statuses' = statuses
                           /\ Writing(t) \in DOMAIN work.chunks /\ Writing(t) \in DOMAIN work'.chunks
                                => work'.chunks[Writing(t)].data = work.chunks[Writing(t)].data
                           /\ Writing(t) \notin DOMAIN work'.chunks]_vars

\* the file lists of the small chunks, in chunk order
Batches ==
    LET small == SelectSeq(manifest.chunks, LAMBDA c : c.category = "small")
    IN  [i \in DOMAIN small |-> small[i].files]

\* the names of the small files in manifest order
SmallNames ==
    LET small == SelectSeq(manifest.files, LAMBDA f : f.category = "small")
    IN  [i \in DOMAIN small |-> small[i].name]

\* the batches one after the other
RECURSIVE Flat(_)
Flat(bs) == IF bs = <<>> THEN <<>> ELSE Head(bs) \o Flat(Tail(bs))

BatchSize(names) == SumSeq([k \in DOMAIN names |-> SizeOfName(names[k])])

\* C29: the small chunks are consecutive batches of the small files in manifest order;
\* a batch is closed exactly when its size after appending a file reaches
\* PREFERRED_CHUNK_SIZE, a non-empty rest is the last small chunk; 20 files of 1 MiB
\* give chunks of 8, 8 and 4 files
C29_SmallBatches ==
    stage = "chunked" =>
        /\ Flat(Batches) = SmallNames
        /\ \A i \in DOMAIN Batches :
             /\ Batches[i] # <<>>
             /\ \A k \in 1..(Len(Batches[i]) - 1) :
                  BatchSize(SubSeq(Batches[i], 1, k)) < PREFERRED_CHUNK_SIZE
             /\ i < Len(Batches) => BatchSize(Batches[i]) >= PREFERRED_CHUNK_SIZE
        /\ tree = TwentyFiles => [i \in DOMAIN Batches |-> Len(Batches[i])] = <<8, 8, 4>>

\* the twenty files of 1 MiB packed into chunks of 8, 8 and 4 files
C29_Witness ==
    /\ stage = "chunked"
    /\ tree = TwentyFiles
    /\ Len(Batches) = 3
    /\ Len(Batches[1]) = 8 /\ Len(Batches[2]) = 8 /\ Len(Batches[3]) = 4

\* the stage that failed is the last one the run started; the last stage that
\* completed is the one started before it, or the one the cursor read at the start
\* of the run stands for
LastCompleted ==
    IF Len(job.ran) > 1 THEN StageNo(job.ran[Len(job.ran) - 1]) ELSE job.local

\* C30: when a stage fails the cursor is the index of the last stage that completed,
\* and chunk.py, when it is entered again, finds none of its scratch directories
\* (smallFiles, mediumFiles, largeFiles, largeFiles_split) left from the run before
C30_CursorAndScratch ==
    /\ job.pc = "failed" => job.step = LastCompleted
    /\ job.met = {}

\* C31: the values logged over one run of main.py are whole percentages and never
\* decrease, also from the last value of unzip.py to the first of manifest.py
C31_ProgressMonotone ==
    /\ \A i \in DOMAIN job.log : job.log[i] % 100 = 0
    /\ \A i, j \in DOMAIN job.log : i < j => job.log[i] <= job.log[j]

\* what was saved and what is at the save path of g are of different types
Mismatch(g, sv) ==
    /\ sv.on /\ sv.path # <<>>
    /\ \/ sv.kind = "dir" /\ IsFile(g, sv.path)
       \/ sv.kind = "file" /\ IsDir(g, sv.path)

\* C32: a restore that finds a file where a directory was saved, or a directory where a
\* file was saved, changes neither the tree of games/<id>/ nor saves/<id>/
C32_MismatchKeepsBoth ==
    [][\A t \in Threads :
          (th[t].pc = "finish" /\ th'[t].pc = "complete" /\ Mismatch(game, saves)) =>
              /\ saves' = saves
              /\ game'.files = game.files
              /\ game'.folders = game.folders]_vars

\* an install has just restored the saves of a game that has a file where a directory
\* was saved, or a directory where a file was saved
C32_Witness ==
    \E t \in Threads : th[t].pc = "complete" /\ Mismatch(game, saves)

\* the save data the game wrote is at the path it was written to
SaveInGame == IsFile(game, saves.written) /\ game.files[saves.written] = SaveData

\* the save data the game wrote is under saves/<id>/
SaveInSaves ==
    \/ saves.kind = "file" /\ saves.written = saves.path /\ saves.data = SaveData
    \/ /\ saves.kind = "dir"
       /\ IsUnder(saves.written, saves.path)
       /\ Rel(saves.written, saves.path) \in DOMAIN saves.files
       /\ saves.files[Rel(saves.written, saves.path)] = SaveData

\* C33: with saveInGameFolder on, save data written by an installed game that is not
\* deleted is still at its path, or under saves/<id>/, when a later install of the
\* game has completed
C33_ReinstallKeepsSaves ==
    (/\ saves.on /\ saves.written # <<>> /\ ~saves.deleted
     /\ statuses.present /\ statuses.status = "completed"
     /\ \A t \in Threads : th[t].pc \in {"none", "done"})
        => (SaveInGame \/ SaveInSaves)

\* C34: a job that ended in error or cancelled has not changed games/<id>/: it removed
\* no earlier installation and left no partly installed tree
C34_FailedJobLeavesGame ==
    \A t \in Threads : hist.final[t] \in {"error", "cancelled"} => ~hist.touched[t]

\* C37: over runs, failed stages and restarts of main.py the cursor in state.json never
\* decreases
C37_CursorNeverDecreases ==
    [][job'.step >= job.step]_vars

\* C35: a job enqueued by the HTTP server adds its entry to processes.json and leaves
\* what the watchdog wrote there: no removed entry comes back, no value is replaced
C35_NoLostUpdates ==
    [][Len(process_data') = Len(process_data) + 1
          => processes_json' = Append(processes_json, process_data'[Len(process_data')])]_vars

\* C36: an entry whose download failed never has download 1.0, an entry whose pipeline
\* failed never has process 1.0, and neither is dropped from the queue as finished
C36_OnlySuccessIsComplete ==
    /\ \A i \in DOMAIN processes_json :
         /\ <<processes_json[i].id, "download">> \in wd.failed => processes_json[i].download < 1000
         /\ <<processes_json[i].id, "process">> \in wd.failed => processes_json[i].process < 1000
    /\ \A f \in wd.failed : f[1] \notin wd.dropped

\* C39: a request with the stored key of an account is attributed to that account
C39_KeyNamesItsUser ==
    \A i \in DOMAIN USERS : auth_user(USERS, USERS[i].api_key) = USERS[i].username

\* C38: every job accepted by start(id) reaches completed, cancelled or error when its
\* thread and its workers keep running, whatever step of the pipeline fails
C38_EventuallyTerminal ==
    \A t \in Threads : (th[t].pc = "setup") ~> (hist.final[t] # "")

====
